---- MODULE Spec2Model ----
(***************************************************************************)
(* Link shortener: the Link Store (db.links), the Access Log Store         *)
(* (db.access_logs), the QR files on disk, and the request handlers that   *)
(* read and write them.  Every handler is cut at its awaits: one action    *)
(* per database round trip, so that concurrent requests interleave exactly *)
(* where the event loop lets them.  pc and req hold each in-flight         *)
(* request's position and locals; last holds the request that completed    *)
(* most recently, with the response it was given.                          *)
(***************************************************************************)
EXTENDS Integers, Sequences, FiniteSets, TLC

VARIABLES links, access_logs, files, callbacks, callback_log, nextLinkId, nextLogId,
          pc, req, last, inputs

vars == <<links, access_logs, files, callbacks, callback_log, nextLinkId, nextLogId,
          pc, req, last, inputs>>

----------------------------------------------------------------------------
(* Bounds *)

\* Links ever inserted (ObjectIds are never reused).
MaxLinkIds == 2

\* Access-log entries ever appended.
MaxLogs == 1

\* Requests in flight at a time.
NumProcs == 2

Procs == 1..NumProcs

\* The maintenance scripts are run from the command line, one run at a
\* time, in a process of their own.
Script == 0

Tasks == Procs \cup {Script}

----------------------------------------------------------------------------
(* Strings are sequences of one-character strings, so that the slug regex  *)
(* and the tombstone suffix are computed character by character.           *)

Lower == {"a","b","c","d","e","f","g","h","i","j","k","l","m",
          "n","o","p","q","r","s","t","u","v","w","x","y","z"}

Upper == {"A","B","C","D","E","F","G","H","I","J","K","L","M",
          "N","O","P","Q","R","S","T","U","V","W","X","Y","Z"}

Digits == {"0","1","2","3","4","5","6","7","8","9"}

SlugChars == Lower \cup Upper \cup Digits \cup {"_", "-"}

\* re.match(r"^[a-zA-Z0-9_-]{3,64}$", v)
SlugPattern(v) == Len(v) >= 3 /\ Len(v) <= 64 /\ \A i \in 1..Len(v) : v[i] \in SlugChars

\* ShortenResponse.validate_slug: None passes, anything else must match.
validate_slug(v) == v = <<>> \/ SlugPattern(v)

\* An absent optional value is <<>>, a present one is <<x>>.
Opt(S) == {<<>>} \cup {<<x>> : x \in S}

----------------------------------------------------------------------------
(* Request inputs *)

\* Form field `slug`: absent/empty (<<>>), a well-formed slug, a slug the
\* pattern rejects.
Abc == <<"a","b","c">>

Ab == <<"a","b">>

CustomSlugs == { <<>>, Abc, Ab }

\* shortuuid.uuid()[:6]
GeneratedSlugs == { <<"k","3","X","q","9","Z">> }

\* A URL is its part before "?" and its query string as key/value pairs.
PlainUrl == [base |-> "https://example.com/path", query |-> <<>>]

QueryUrl == [base |-> "https://example.com/path",
             query |-> << <<"x","1">>, <<"z","5">>, <<"x","9">> >>]

Urls == {PlainUrl, QueryUrl}

NoUrl == [base |-> "", query |-> <<>>]

\* Incoming query strings of a redirect request.
Queries == { <<>>, << <<"x","2">>, <<"y","3">> >> }

\* callback_url: "" is no callback.
CallbackUrls == {"", "https://hook.example/cb"}

\* datetime.now().strftime("%Y-%m-%d")
Dates == { <<"2","0","2","6","-","1","1","-","0","4">> }

----------------------------------------------------------------------------
(* Times *)

DigitChars == <<"0", "1", "2", "3", "4", "5", "6", "7", "8", "9">>

DigitValue(c) == CHOOSE v \in 0..9 : DigitChars[v + 1] = c

MonthPrefix == <<"2", "0", "2", "4", "-", "0", "1", "-">>

\* An instant is a day of January 2024.  isoformat(): its string.
IsoFormat(t) == MonthPrefix \o <<DigitChars[(t \div 10) + 1], DigitChars[(t % 10) + 1]>>

\* A date string parsed into an instant; <<>> when it is not a date.
ParseDate(v) ==
    IF /\ Len(v) = 10 /\ SubSeq(v, 1, 8) = MonthPrefix
       /\ v[9] \in Digits /\ v[10] \in Digits
       /\ 10 * DigitValue(v[9]) + DigitValue(v[10]) \in 1..31
      THEN <<10 * DigitValue(v[9]) + DigitValue(v[10])>>
      ELSE <<>>

\* An aware datetime is its wall clock, in hours (day d at 00:00 is
\* 24 * d), with the UTC offset of its zone in hours; its instant is the
\* wall clock at UTC.
NoDt == [wall |-> 0, off |-> 0]

Instant(dt) == dt.wall - dt.off

\* dt.astimezone(tz)
AsTimezone(dt, off) == [wall |-> Instant(dt) + off, off |-> off]

\* ZoneInfo(tz_name).utcoffset, for zones without daylight saving time.
America_Sao_Paulo == -3

UTC == 0

TimeSuffix == <<":", "0", "0", ":", "0", "0">>

\* datetime.fromisoformat of "YYYY-MM-DDTHH:00:00": the naive wall clock in
\* hours; <<>> when the string is not of that shape.
ParseDateTime(v) ==
    IF /\ Len(v) = 19 /\ ParseDate(SubSeq(v, 1, 10)) # <<>> /\ v[11] = "T"
       /\ v[12] \in Digits /\ v[13] \in Digits
       /\ 10 * DigitValue(v[12]) + DigitValue(v[13]) \in 0..23
       /\ SubSeq(v, 14, 19) = TimeSuffix
      THEN <<24 * ParseDate(SubSeq(v, 1, 10))[1]
               + 10 * DigitValue(v[12]) + DigitValue(v[13])>>
      ELSE <<>>

\* isoformat() of a naive datetime on the hour.
IsoFormatHour(d, h) ==
    IsoFormat(d) \o <<"T", DigitChars[(h \div 10) + 1], DigitChars[(h % 10) + 1]>>
      \o TimeSuffix

----------------------------------------------------------------------------
(* Records *)

\* A stored link.  title is a string, notes an optional string, tags a
\* sequence of strings; created_at and updated_at are optional instants.
NoLink == [id |-> 0, slug |-> <<>>, original_url |-> NoUrl, callback_url |-> "",
           is_active |-> FALSE, status |-> "", qr_png |-> "", qr_svg |-> "",
           title |-> "", notes |-> <<>>, tags |-> <<>>,
           created_at |-> <<>>, updated_at |-> <<>>, click_count |-> 0,
           expires_at |-> <<>>, max_clicks |-> <<>>]

NoUpdate == [title |-> <<>>, original_url |-> <<>>, notes |-> <<>>, tags |-> <<>>,
             is_active |-> <<>>, callback_url |-> <<>>, now |-> 0]

\* The answer of the geo provider to one GET: how the exchange ended and,
\* when a JSON body arrived, what it held.
NoOutcome == [kind |-> "", data |-> <<>>]

\* get_geo_from_ip's result: a key that is not in the dict is <<>>.
NoGeo == [ip |-> <<>>, country |-> <<>>, country_code |-> <<>>, city |-> <<>>, raw |-> <<>>]

\* The options of a maintenance run: the flags it was started with, the
\* instant it took as now, and the cutoff it derived.
NoOpts == [force |-> FALSE, dry_run |-> FALSE, only_inactive |-> FALSE,
           clear_db_fields |-> FALSE, only_active |-> FALSE, now |-> 0, cutoff |-> 0]

\* ResolvedRange
NoRange == [tz |-> 0, from_local |-> NoDt, to_local |-> NoDt,
            from_utc |-> NoDt, to_utc |-> NoDt]

\* OverviewResponse without its range.
NoDash == [clicks_total |-> 0, unique_ips |-> 0, last_click |-> <<>>,
           links_total |-> 0, links_active |-> 0, series |-> <<>>, top_links |-> <<>>]

\* LinkStatsResponse: its summary, series and device_type breakdown.
NoStats == [clicks_total |-> 0, unique_ips |-> 0, last_click |-> <<>>,
            series |-> <<>>, device_type |-> <<>>]

\* The locals of a request in flight.
IdleReq == [op |-> "", slug |-> <<>>, custom |-> <<>>, url |-> NoUrl, callback_url |-> "",
            query |-> <<>>, id |-> 0, link |-> NoLink, dest |-> NoUrl,
            new_slug |-> <<>>, log_id |-> 0, name |-> "", notes |-> <<>>,
            update |-> NoUpdate, todo |-> <<>>, opts |-> NoOpts, qr |-> "",
            updated |-> 0, results |-> <<>>,
            ip |-> <<>>, lookups |-> 0, outcome |-> NoOutcome, ua |-> <<>>,
            filter |-> <<>>, page |-> 0, page_size |-> 0,
            range |-> NoRange, top |-> 0, limit |-> 0, dash |-> NoDash,
            snapshot |-> <<>>, sort |-> "", from_param |-> <<>>, to_param |-> <<>>,
            tz |-> 0]

NoCallback == [body_id |-> 0, outcome |-> ""]

NoResp == [status |-> 0, slug |-> <<>>, dest |-> NoUrl, doc |-> NoLink,
           updated |-> 0, results |-> <<>>, raised |-> FALSE, geo |-> NoGeo,
           device |-> <<>>, total |-> 0, dash |-> NoDash, stats |-> NoStats,
           snapshot |-> <<>>, range |-> NoRange]

LinksBySlugUnfiltered(slug) == links

\* db.links.find({"slug": slug})
LinksBySlug(slug) == {l \in links : l.slug = slug}

\* db.links.find({"_id": oid})
LinksById(id) == {l \in links : l.id = id}

\* Requests that have passed find_one and will insert a link.
PendingInserts == Cardinality({p \in Procs : pc[p] = "shorten_insert"})

\* Redirects that have resolved their link and will append a log entry.
PendingLogs == Cardinality({p \in Procs : pc[p] = "redirect_log"})

\* The handler of worker p returns (or raises) with response r.
Respond(p, r, response) ==
    /\ pc' = [pc EXCEPT ![p] = "idle"]
    /\ req' = [req EXCEPT ![p] = IdleReq]
    /\ last' = [req |-> r, resp |-> response]

\* A maintenance request as it was made: its operation and options, without
\* the loop's locals.
Made(r) == [IdleReq EXCEPT !.op = r.op, !.opts = r.opts]

\* The handler of worker p suspends at its next await.
Await(p, r, label) ==
    /\ pc' = [pc EXCEPT ![p] = label]
    /\ req' = [req EXCEPT ![p] = r]
    /\ last' = last

InitStore ==
    /\ access_logs = {}
    /\ callbacks = {}
    /\ callback_log = NoCallback
    /\ nextLogId = 1
    /\ pc = [p \in Tasks |-> "idle"]
    /\ req = [p \in Tasks |-> IdleReq]
    /\ last = [req |-> IdleReq, resp |-> NoResp]

\* Admin traffic: every kind of slug, one destination.
AdminInputs ==
    [custom_slugs |-> CustomSlugs, generated_slugs |-> GeneratedSlugs,
     urls |-> {PlainUrl}, callback_urls |-> {""}, actives |-> {},
     redirect_slugs |-> {}, queries |-> {},
     names |-> {"name"}, notes |-> {}, titles |-> {}, tags |-> {}, times |-> {1}]

\* Redirect traffic: a known and an unknown slug, every incoming query string.
RedirectInputs ==
    [custom_slugs |-> {Abc}, generated_slugs |-> GeneratedSlugs,
     urls |-> Urls, callback_urls |-> CallbackUrls, actives |-> {},
     redirect_slugs |-> {Abc, Ab}, queries |-> Queries,
     names |-> {"name"}, notes |-> {}, titles |-> {}, tags |-> {}, times |-> {1},
     enforce |-> FALSE]

\* Maintenance traffic: PATCH requests with and without tags, regenerate
\* payloads with and without force, with a repeated and an unknown slug,
\* and script runs that are not dry runs.
MaintainInputs ==
    [custom_slugs |-> {}, generated_slugs |-> {},
     urls |-> {}, callback_urls |-> {}, actives |-> {},
     redirect_slugs |-> {}, queries |-> {},
     names |-> {}, notes |-> {}, titles |-> {}, tags |-> { <<" ", "a", ",", ",", "b", " ">> },
     times |-> {3},
     regenerate_payloads |-> { [slug |-> Abc, slugs |-> <<>>, force |-> TRUE],
                               [slug |-> <<>>, slugs |-> <<Abc, Ab, Abc>>, force |-> FALSE] },
     cleanup_options |-> { [months |-> 1, only_inactive |-> FALSE, dry_run |-> FALSE,
                            clear_db_fields |-> TRUE] },
     fix_options |-> { [dry_run |-> FALSE, only_active |-> FALSE] }]

\* Runs of the two scripts with every combination of their flags, at
\* instant 6 with a retention of one unit, so that the cutoff is 5.
ScriptInputs ==
    [MaintainInputs EXCEPT
       !.tags = {}, !.regenerate_payloads = {}, !.times = {6},
       !.cleanup_options = [months : {1}, only_inactive : BOOLEAN, dry_run : BOOLEAN,
                            clear_db_fields : BOOLEAN],
       !.fix_options = [dry_run : BOOLEAN, only_active : BOOLEAN]]

\* User-agent strings of a phone and of a desktop browser.
Iphone == "Mozilla/5.0 (iPhone; CPU iPhone OS 17_0 like Mac OS X) Version/17.0 Mobile Safari"

Desktop == "Mozilla/5.0 (Windows NT 10.0; Win64; x64) Chrome/120.0.0.0 Safari/537.36"

\* A JSON body: an object with the provider's keys (a missing key is <<>>),
\* or a value that is not an object (a list, a string, null).
JsonObject(country_name, country, city) ==
    [object |-> TRUE, country_name |-> country_name, country |-> country, city |-> city]

JsonNotObject == [object |-> FALSE, country_name |-> <<>>, country |-> <<>>, city |-> <<>>]

\* Enrichment traffic: no ip, addresses of every special-purpose kind,
\* public addresses next to them, strings that are not addresses, every
\* way the lookup can end; and user-agent strings that are empty,
\* malformed, or those of a phone and of a desktop browser.
EnrichmentInputs ==
    [ips |-> { <<>>, <<10, 0, 0, 1>>, <<127, 0, 0, 1>>, <<172, 16, 0, 1>>, <<172, 32, 0, 1>>,
               <<192, 168, 1, 1>>, <<169, 254, 1, 1>>, <<240, 0, 0, 1>>, <<8, 8, 8, 8>>,
               <<11, 0, 0, 1>>, <<999, 1, 1, 1>>, <<1, 2, 3>> },
     lookup_outcomes |->
        {[kind |-> k, data |-> <<>>] : k \in {"timeout", "non_2xx", "not_json"}}
        \cup {[kind |-> "json", data |-> d] :
                d \in {JsonObject(<<"Brazil">>, <<"BR">>, <<"Recife">>),
                       JsonObject(<<"Brazil">>, <<"BR">>, <<>>),
                       JsonNotObject}},
     user_agents |-> {"", "@@@", Iphone, Desktop}]

\* Admin reads: every is_active filter, first and second page, of one and
\* of two documents.
ReadInputs == [actives |-> BOOLEAN, pages |-> {1, 2}, page_sizes |-> {1, 2}]

\* Dashboard traffic: ranges given by either bound, both (out of order) or
\* neither, on day 6.
DashInputs ==
    [froms |-> Opt({IsoFormat(5)}), tos |-> Opt({IsoFormat(4)}), times |-> {6},
     tzs |-> {America_Sao_Paulo}, tops |-> {1, 2}, limits |-> {1, 2}, redirect_slugs |-> {Abc, Ab, <<"z">>}]

\* Dashboard overviews of the default range while admins create links
\* with generated slugs and delete links, and visitors follow abc.
DashLiveInputs ==
    [froms |-> {<<>>}, tos |-> {<<>>}, times |-> {6}, tzs |-> {America_Sao_Paulo},
     tops |-> {1},
     custom_slugs |-> {<<>>}, generated_slugs |-> GeneratedSlugs,
     urls |-> {PlainUrl}, callback_urls |-> {""}, names |-> {"name"}, notes |-> {},
     redirect_slugs |-> {Abc}, queries |-> {<<>>}, enforce |-> FALSE]

\* Dashboard listings of the default range: every sort, pages of one and
\* of two links.
DashListInputs ==
    [froms |-> {<<>>}, tos |-> {<<>>}, times |-> {6}, tzs |-> {America_Sao_Paulo},
     actives |-> {TRUE},
     sorts |-> {"clicks_desc", "created_desc", "last_click_desc"},
     pages |-> {1, 2}, page_sizes |-> {1, 2}]

\* Bounds of a range: absent, empty, a date before or after now, a
\* datetime with and without Z, with blanks around it, and not a date.
RangeInputs ==
    [froms |-> Opt({<<>>, IsoFormat(5), IsoFormat(9), IsoFormatHour(5, 12),
                    IsoFormatHour(5, 1) \o <<"Z">>, <<"@", "@", "@">>}),
     tos |-> Opt({IsoFormat(4), <<" ">> \o IsoFormat(7) \o <<" ">>,
                  IsoFormatHour(4, 23) \o <<"Z">>, IsoFormat(5) \o <<"T">>}),
     tzs |-> {America_Sao_Paulo, UTC}, times |-> {6, 8}]

\* The store is empty before the first link is created.
Init ==
    /\ InitStore
    /\ links = {}
    /\ files = {}
    /\ nextLinkId = 1
    /\ inputs = AdminInputs

\* A link as shorten_link stores it.
NewLinkDoc(id, slug, url, callback_url, name, notes, now) ==
    [id |-> id, slug |-> slug, original_url |-> url, callback_url |-> callback_url,
     is_active |-> TRUE, status |-> "valid", qr_png |-> "static", qr_svg |-> "static",
     title |-> name, notes |-> notes, tags |-> <<>>,
     created_at |-> <<now>>, updated_at |-> <<>>, click_count |-> 0,
     expires_at |-> <<>>, max_clicks |-> <<>>]

\* utils/qr.py generate_qr: writes static/{slug}.png and static/{slug}.svg
generate_qr(slug) == { <<"static", slug, "png">>, <<"static", slug, "svg">> }

\* The store holds no link, or one link created earlier by shorten_link.
InitRedirect ==
    /\ InitStore
    /\ \/ links = {} /\ files = {} /\ nextLinkId = 1
       \/ \E url \in Urls, cb \in CallbackUrls :
            /\ links = {NewLinkDoc(1, Abc, url, cb, "name", <<>>, 1)}
            /\ files = generate_qr(Abc)
            /\ nextLinkId = 2
    /\ inputs = RedirectInputs

\* The store holds one link created earlier by shorten_link and never
\* accessed, its QR files where generate_qr wrote them or under
\* /app/src/static.
InitMaintain ==
    /\ InitStore
    /\ links = {NewLinkDoc(1, Abc, PlainUrl, "", "name", <<>>, 1)}
    /\ files \in {generate_qr(Abc),
                  { <<"src/static", Abc, "png">>, <<"src/static", Abc, "svg">> }}
    /\ nextLinkId = 2
    /\ inputs = MaintainInputs

----------------------------------------------------------------------------
(* POST /admin/shorten *)

SlugTakenNever(slug) == FALSE

\* `if await db.links.find_one({"slug": slug})`
SlugTaken(slug) == LinksBySlug(slug) # {}

\* First await of shorten_link: the slug is defaulted, then looked up; a hit
\* raises 409.
shorten_link_find_one(p) ==
    /\ pc[p] = "idle"
    /\ \E custom \in inputs.custom_slugs, gen \in inputs.generated_slugs,
          url \in inputs.urls, cb \in inputs.callback_urls,
          name \in inputs.names, notes \in Opt(inputs.notes) :
         LET slug == IF custom # <<>> THEN custom ELSE gen
             r == [IdleReq EXCEPT !.op = "shorten", !.slug = slug, !.custom = custom]
         IN  IF SlugTaken(slug)
               THEN Respond(p, r, [NoResp EXCEPT !.status = 409])
               ELSE /\ nextLinkId + PendingInserts <= MaxLinkIds
                    /\ Await(p, [r EXCEPT !.url = url, !.callback_url = cb,
                                          !.name = name, !.notes = notes],
                             "shorten_insert")
    /\ UNCHANGED <<inputs, callback_log, links, access_logs, files, callbacks,
                   nextLinkId, nextLogId>>

\* Second await of shorten_link: the QR files are written, the document is
\* inserted, and the ShortenResponse is built (its slug validator runs here,
\* after the insert; a validation error is a 500).
shorten_link_insert_one(p) ==
    /\ pc[p] = "shorten_insert"
    /\ \E now \in inputs.times :
       LET r == [req[p] EXCEPT !.id = nextLinkId]
           doc == NewLinkDoc(nextLinkId, r.slug, r.url, r.callback_url, r.name, r.notes, now)
       IN  /\ files' = files \cup generate_qr(r.slug)
           /\ links' = links \cup {doc}
           /\ nextLinkId' = nextLinkId + 1
           /\ Respond(p, r, IF validate_slug(r.slug)
                              THEN [NoResp EXCEPT !.status = 200, !.slug = r.slug]
                              ELSE [NoResp EXCEPT !.status = 500])
    /\ UNCHANGED <<inputs, callback_log, access_logs, callbacks, nextLogId>>

----------------------------------------------------------------------------
(* DELETE /admin/links/{link_id} *)

LinkIds == 1..MaxLinkIds

Deleted == <<"_","d","e","l","e","t","e","d","_">>

\* new_slug = f"{slug}_deleted_{timestamp}"
TombstoneSlug(slug, timestamp) == slug \o Deleted \o timestamp

RenameLogsDropping(logs, slug, new_slug) == {e \in logs : e.slug # slug}

\* db.access_logs.update_many({"slug": slug}, {"$set": {"slug": new_slug}})
RenameLogs(logs, slug, new_slug) ==
    {IF e.slug = slug THEN [e EXCEPT !.slug = new_slug] ELSE e : e \in logs}

\* First await of delete_link: find_one by _id; 404 when absent, 400 when
\* the document has no slug.
delete_link_find_one(p) ==
    /\ pc[p] = "idle"
    /\ \E id \in LinkIds :
         LET r == [IdleReq EXCEPT !.op = "delete", !.id = id]
         IN  IF LinksById(id) = {}
               THEN Respond(p, r, [NoResp EXCEPT !.status = 404])
               ELSE \E link \in LinksById(id) :
                      IF link.slug = <<>>
                        THEN Respond(p, r, [NoResp EXCEPT !.status = 400])
                        ELSE Await(p, [r EXCEPT !.slug = link.slug], "delete_rename")
    /\ UNCHANGED <<inputs, callback_log, links, access_logs, files, callbacks,
                   nextLinkId, nextLogId>>

\* Second await of delete_link: the tombstoned slug is built from today's
\* date and written to every access log of the slug.
delete_link_update_many(p) ==
    /\ pc[p] = "delete_rename"
    /\ \E timestamp \in Dates :
         LET new_slug == TombstoneSlug(req[p].slug, timestamp)
         IN  /\ access_logs' = RenameLogs(access_logs, req[p].slug, new_slug)
             /\ Await(p, [req[p] EXCEPT !.new_slug = new_slug], "delete_remove")
    /\ UNCHANGED <<inputs, callback_log, links, files, callbacks, nextLinkId, nextLogId>>

\* Third await of delete_link: the link is removed, then the QR files under
\* ./src/static, and 204 is returned.
delete_link_delete_one(p) ==
    /\ pc[p] = "delete_remove"
    /\ links' = {l \in links : l.id # req[p].id}
    /\ files' = files \ { <<"src/static", req[p].slug, "png">>,
                          <<"src/static", req[p].slug, "svg">> }
    /\ Respond(p, req[p], [NoResp EXCEPT !.status = 204])
    /\ UNCHANGED <<inputs, callback_log, access_logs, callbacks, nextLinkId, nextLogId>>

----------------------------------------------------------------------------
(* PATCH /admin/links/{link_id} *)

\* s.strip(): leading and trailing blanks are removed.
RECURSIVE Strip(_)
Strip(t) ==
    IF t = <<>> THEN t
    ELSE IF Head(t) = " " THEN Strip(Tail(t))
    ELSE IF t[Len(t)] = " " THEN Strip(SubSeq(t, 1, Len(t) - 1))
    ELSE t

\* s.split(","): the pieces between commas, empty ones included.
RECURSIVE Split(_)
Split(t) ==
    IF \A i \in 1..Len(t) : t[i] # "," THEN <<t>>
    ELSE LET i == CHOOSE k \in 1..Len(t) : t[k] = "," /\ \A j \in 1..(k - 1) : t[j] # ","
         IN  <<SubSeq(t, 1, i - 1)>> \o Split(SubSeq(t, i + 1, Len(t)))

\* [t.strip() for t in tags.split(",") if t.strip()]
ParseTags(tags) ==
    LET pieces == Split(tags)
        NonBlank(t) == Strip(t) # <<>>
        kept == SelectSeq(pieces, NonBlank)
    IN  [i \in 1..Len(kept) |-> Strip(kept[i])]

ApplyUpdateTouchingAll(l, u) ==
    [l EXCEPT !.updated_at = <<u.now>>,
              !.title = IF u.title = <<>> THEN "" ELSE u.title[1],
              !.original_url = IF u.original_url = <<>> THEN NoUrl ELSE u.original_url[1],
              !.notes = u.notes,
              !.tags = IF u.tags = <<>> THEN <<>> ELSE ParseTags(u.tags[1]),
              !.is_active = IF u.is_active = <<>> THEN FALSE ELSE u.is_active[1],
              !.callback_url = IF u.callback_url = <<>> THEN "" ELSE u.callback_url[1]]

\* update_fields applied by $set: updated_at, and each supplied field.
ApplyUpdate(l, u) ==
    [l EXCEPT !.updated_at = <<u.now>>,
              !.title = IF u.title = <<>> THEN @ ELSE u.title[1],
              !.original_url = IF u.original_url = <<>> THEN @ ELSE u.original_url[1],
              !.notes = IF u.notes = <<>> THEN @ ELSE u.notes,
              !.tags = IF u.tags = <<>> THEN @ ELSE ParseTags(u.tags[1]),
              !.is_active = IF u.is_active = <<>> THEN @ ELSE u.is_active[1],
              !.callback_url = IF u.callback_url = <<>> THEN @ ELSE u.callback_url[1]]

\* The query parameters of a PATCH, each optional, and the instant it is made.
UpdateRequests ==
    [title : Opt(inputs.titles), original_url : Opt(inputs.urls), notes : Opt(inputs.notes),
     tags : Opt(inputs.tags), is_active : Opt(inputs.actives),
     callback_url : Opt(inputs.callback_urls), now : inputs.times]

\* First await of update_link: update_one by _id; 404 when nothing matched.
update_link_update_one(p) ==
    /\ pc[p] = "idle"
    /\ \E id \in LinkIds, u \in UpdateRequests :
         LET r == [IdleReq EXCEPT !.op = "update", !.id = id, !.update = u]
         IN  IF LinksById(id) = {}
               THEN /\ links' = links
                    /\ Respond(p, r, [NoResp EXCEPT !.status = 404])
               ELSE /\ links' = {IF l.id = id
                                   THEN ApplyUpdate(l, u)
                                   ELSE l : l \in links}
                    /\ Await(p, r, "update_read")
    /\ UNCHANGED <<inputs, callback_log, access_logs, files, callbacks, nextLinkId, nextLogId>>

\* Second await of update_link: the document is read back; 500 when it has
\* been deleted in between.
update_link_find_one(p) ==
    /\ pc[p] = "update_read"
    /\ IF LinksById(req[p].id) = {}
         THEN Respond(p, req[p], [NoResp EXCEPT !.status = 500])
         ELSE \E doc \in LinksById(req[p].id) :
                Respond(p, req[p], [NoResp EXCEPT !.status = 200, !.doc = doc])
    /\ UNCHANGED <<inputs, callback_log, links, access_logs, files, callbacks,
                   nextLinkId, nextLogId>>

----------------------------------------------------------------------------
(* POST /admin/qr/regenerate *)

\* The documents a cursor yields, in natural (insertion) order, each
\* projected on the fields the scripts read: _id, slug and created_at.
RECURSIVE Cursor(_)
Cursor(S) ==
    IF S = {} THEN <<>>
    ELSE LET l == CHOOSE x \in S : \A y \in S : x.id <= y.id
         IN  <<[id |-> l.id, slug |-> l.slug, created_at |-> l.created_at]>>
               \o Cursor(S \ {l})

DedupKeepingRepeats(slugs, seen) == SelectSeq(slugs, LAMBDA x : x # <<>>)

\* `[s for s in slugs if s and not (s in seen or seen.add(s))]`
RECURSIVE Dedup(_, _)
Dedup(slugs, seen) ==
    IF slugs = <<>> THEN <<>>
    ELSE IF Head(slugs) = <<>> \/ Head(slugs) \in seen THEN Dedup(Tail(slugs), seen)
    ELSE <<Head(slugs)>> \o Dedup(Tail(slugs), seen \cup {Head(slugs)})

\* os.path.exists of both QR files of a slug in a directory.
FilesExist(dir, slug) == <<dir, slug, "png">> \in files /\ <<dir, slug, "svg">> \in files

\* The loop goes on to its next slug, or the response is returned.
RegenerateNext(p, r) ==
    IF r.todo = <<>>
      THEN Respond(p, Made(r), [NoResp EXCEPT !.status = 200, !.updated = r.updated,
                                              !.results = r.results])
      ELSE Await(p, r, "regenerate_find")

\* One find_one of the loop, and what follows it up to the next await: a
\* miss is reported; on a hit the files are kept (force off, both present
\* under /app/src/static) or written anew by generate_qr.
RegenerateFind(p, r) ==
    IF r.todo = <<>>
      THEN files' = files /\ RegenerateNext(p, r)
      ELSE LET slug == Head(r.todo)
           IN  IF LinksBySlug(slug) = {}
                 THEN /\ files' = files
                      /\ RegenerateNext(p, [r EXCEPT !.todo = Tail(@),
                                !.results = Append(@, [slug |-> slug, ok |-> FALSE,
                                                       reason |-> "link_not_found"])])
                 ELSE \E doc \in LinksBySlug(slug) :
                        IF ~ r.opts.force /\ FilesExist("src/static", slug)
                          THEN /\ files' = files
                               /\ Await(p, [r EXCEPT !.id = doc.id, !.qr = "src/static"],
                                        "regenerate_update")
                          ELSE /\ files' = files \cup generate_qr(slug)
                               /\ Await(p, [r EXCEPT !.id = doc.id, !.qr = "static"],
                                        "regenerate_update")

\* The request arrives (400 without slug and slugs) and its first find_one
\* runs, or a later find_one of the loop runs.
regenerate_qr_codes_find_one(p) ==
    /\ \/ /\ pc[p] = "idle"
          /\ \E payload \in inputs.regenerate_payloads, now \in inputs.times :
               LET slugs == (IF payload.slug # <<>> THEN <<payload.slug>> ELSE <<>>)
                              \o payload.slugs
                   r == [IdleReq EXCEPT !.op = "regenerate", !.todo = Dedup(slugs, {}),
                                        !.opts = [NoOpts EXCEPT !.force = payload.force,
                                                                !.now = now]]
               IN  IF payload.slug = <<>> /\ payload.slugs = <<>>
                     THEN /\ files' = files
                          /\ Respond(p, Made(r), [NoResp EXCEPT !.status = 400])
                     ELSE RegenerateFind(p, r)
       \/ /\ pc[p] = "regenerate_find"
          /\ RegenerateFind(p, req[p])
    /\ UNCHANGED <<inputs, callback_log, links, access_logs, callbacks, nextLinkId, nextLogId>>

\* update_one by _id of the loop: the QR fields are set, the link is made
\* active and valid, updated_at is the instant the request began.
regenerate_qr_codes_update_one(p) ==
    /\ pc[p] = "regenerate_update"
    /\ LET r == req[p]
           Set(l) == [l EXCEPT !.qr_png = r.qr, !.qr_svg = r.qr, !.is_active = TRUE,
                               !.status = "valid", !.updated_at = <<r.opts.now>>]
           modified == \E l \in LinksById(r.id) : Set(l) # l
           result == [slug |-> Head(r.todo), ok |-> TRUE,
                      reason |-> IF r.qr = "src/static" THEN "skipped_files_exist" ELSE ""]
       IN  /\ links' = {IF l.id = r.id THEN Set(l) ELSE l : l \in links}
           /\ RegenerateNext(p, [r EXCEPT !.todo = Tail(@), !.id = 0, !.qr = "",
                                          !.updated = IF modified THEN @ + 1 ELSE @,
                                          !.results = Append(@, result)])
    /\ UNCHANGED <<inputs, callback_log, access_logs, files, callbacks, nextLinkId, nextLogId>>

----------------------------------------------------------------------------
(* scripts/qr_cleanup.py *)

\* _get_last_access_ts: the `ts` of the entry that sorts first by ts
\* descending (an entry without ts sorts last), when it is a datetime.
LastAccess(slug) ==
    LET dated == {e \in access_logs : e.slug = slug /\ e.ts # <<>>}
    IN  IF dated = {} THEN <<>>
        ELSE <<CHOOSE t \in {e.ts[1] : e \in dated} : \A e \in dated : e.ts[1] <= t>>

RECURSIVE SkipNoSlug(_)
SkipNoSlug(todo) ==
    IF todo # <<>> /\ Head(todo).slug = <<>> THEN SkipNoSlug(Tail(todo)) ELSE todo

\* The loop goes on to its next link with a slug, or the run ends.
CleanupNext(p, r) ==
    LET rest == SkipNoSlug(r.todo)
    IN  IF rest = <<>>
          THEN Respond(p, Made(r), NoResp)
          ELSE Await(p, [r EXCEPT !.todo = rest], "cleanup_access")

\* The run starts: the cutoff is taken and the cursor over the links
\* (the inactive ones only, with only_inactive) is opened.
qr_cleanup_find(p) ==
    /\ pc[p] = "idle"
    /\ \E o \in inputs.cleanup_options, now \in inputs.times :
         LET r == [IdleReq EXCEPT
                     !.op = "qr_cleanup",
                     !.todo = Cursor({l \in links : o.only_inactive => l.is_active = FALSE}),
                     !.opts = [NoOpts EXCEPT !.dry_run = o.dry_run,
                                             !.only_inactive = o.only_inactive,
                                             !.clear_db_fields = o.clear_db_fields,
                                             !.now = now, !.cutoff = now - o.months]]
         IN  CleanupNext(p, r)
    /\ UNCHANGED <<inputs, callback_log, links, access_logs, files, callbacks,
                   nextLinkId, nextLogId>>

\* The last access of the link at hand is read; a link whose reference
\* time is before the cutoff has its QR files removed, and its QR fields
\* cleared by the update that follows.  A dry run removes and clears nothing.
qr_cleanup_last_access(p) ==
    /\ pc[p] = "cleanup_access"
    /\ LET r == req[p]
           link == Head(r.todo)
           created_at == IF link.created_at = <<>> THEN 0 ELSE link.created_at[1]
           last_access == LastAccess(link.slug)
           reference_ts == IF last_access # <<>> THEN last_access[1] ELSE created_at
       IN  IF reference_ts >= r.opts.cutoff
             THEN /\ files' = files
                  /\ CleanupNext(p, [r EXCEPT !.todo = Tail(@)])
             ELSE /\ files' = IF r.opts.dry_run THEN files
                              ELSE files \ { <<"src/static", link.slug, "png">>,
                                             <<"src/static", link.slug, "svg">> }
                  /\ IF r.opts.clear_db_fields /\ ~ r.opts.dry_run
                       THEN Await(p, r, "cleanup_update")
                       ELSE CleanupNext(p, [r EXCEPT !.todo = Tail(@)])
    /\ UNCHANGED <<inputs, callback_log, links, access_logs, callbacks, nextLinkId, nextLogId>>

\* update_one by _id: qr_png and qr_svg are cleared, updated_at is now.
qr_cleanup_update_one(p) ==
    /\ pc[p] = "cleanup_update"
    /\ \E now \in inputs.times :
         links' = {IF l.id = Head(req[p].todo).id
                     THEN [l EXCEPT !.qr_png = "", !.qr_svg = "", !.updated_at = <<now>>]
                     ELSE l : l \in links}
    /\ CleanupNext(p, [req[p] EXCEPT !.todo = Tail(@)])
    /\ UNCHANGED <<inputs, callback_log, access_logs, files, callbacks, nextLinkId, nextLogId>>

----------------------------------------------------------------------------
(* scripts/qr_fix_missing.py *)

\* The documents before the first one that is to be updated are passed
\* over: those with both files on disk, and all of them in a dry run.
RECURSIVE SkipIntact(_, _)
SkipIntact(todo, dry_run) ==
    IF todo = <<>> THEN todo
    ELSE IF Head(todo).slug # <<>> /\ ~ FilesExist("src/static", Head(todo).slug) /\ ~ dry_run
      THEN todo
      ELSE SkipIntact(Tail(todo), dry_run)

FixNext(p, r) ==
    LET rest == SkipIntact(r.todo, r.opts.dry_run)
    IN  IF rest = <<>>
          THEN Respond(p, Made(r), NoResp)
          ELSE Await(p, [r EXCEPT !.todo = rest], "fix_update")

\* The run starts: the cursor over the links that have a QR field set (the
\* active ones only, with only_active) is opened.
qr_fix_missing_find(p) ==
    /\ pc[p] = "idle"
    /\ \E o \in inputs.fix_options :
         LET r == [IdleReq EXCEPT
                     !.op = "qr_fix_missing",
                     !.todo = Cursor({l \in links :
                                        /\ l.qr_png # "" \/ l.qr_svg # ""
                                        /\ o.only_active => l.is_active = TRUE}),
                     !.opts = [NoOpts EXCEPT !.dry_run = o.dry_run,
                                             !.only_active = o.only_active]]
         IN  FixNext(p, r)
    /\ UNCHANGED <<inputs, callback_log, links, access_logs, files, callbacks,
                   nextLinkId, nextLogId>>

\* update_one by _id: the QR fields are cleared and the link is disabled.
qr_fix_missing_update_one(p) ==
    /\ pc[p] = "fix_update"
    /\ \E now \in inputs.times :
         links' = {IF l.id = Head(req[p].todo).id
                     THEN [l EXCEPT !.qr_png = "", !.qr_svg = "", !.is_active = FALSE,
                                    !.updated_at = <<now>>]
                     ELSE l : l \in links}
    /\ FixNext(p, [req[p] EXCEPT !.todo = Tail(@)])
    /\ UNCHANGED <<inputs, callback_log, access_logs, files, callbacks, nextLinkId, nextLogId>>

----------------------------------------------------------------------------
(* GET /admin/links/{link_id} and GET /admin/links *)

\* A link document as the collection holds it, a key it lacks being <<>>.
\* A legacy document has createdAt (a string), status and description, and
\* neither created_at nor is_active.
LegacyDoc(id, slug, status, createdAt) ==
    [id |-> id, slug |-> slug, original_url |-> PlainUrl,
     title |-> <<>>, description |-> <<"old">>, notes |-> <<>>,
     is_active |-> <<>>, status |-> status,
     created_at |-> <<>>, createdAt |-> <<createdAt>>]

\* A document of the current schema, as shorten_link stores it.
CurrentDoc(id, slug, is_active, created_at) ==
    [id |-> id, slug |-> slug, original_url |-> PlainUrl,
     title |-> <<"name">>, description |-> <<>>, notes |-> <<>>,
     is_active |-> <<is_active>>, status |-> <<"valid">>,
     created_at |-> <<created_at>>, createdAt |-> <<>>]

\* bool(doc.get(key))
Truthy(v) == v # <<>> /\ v[1] = TRUE

\* The dict that get_link, list_links and update_link build from a
\* document: each key by doc.get, is_active through bool.
LinkOut(doc) ==
    [id |-> doc.id, slug |-> doc.slug, original_url |-> doc.original_url,
     title |-> doc.title, notes |-> doc.notes,
     is_active |-> Truthy(doc.is_active), status |-> doc.status,
     created_at |-> doc.created_at]

\* get_link: find_one by _id; 404 when absent.
get_link(p) ==
    /\ pc[p] = "idle"
    /\ \E id \in LinkIds :
         LET r == [IdleReq EXCEPT !.op = "get_link", !.id = id]
         IN  IF LinksById(id) = {}
               THEN Respond(p, r, [NoResp EXCEPT !.status = 404])
               ELSE \E doc \in LinksById(id) :
                      Respond(p, [r EXCEPT !.link = doc],
                              [NoResp EXCEPT !.status = 200, !.doc = LinkOut(doc)])
    /\ UNCHANGED <<inputs, callback_log, links, access_logs, files, callbacks,
                   nextLinkId, nextLogId>>

\* filters["is_active"] = is_active, when given.
Matches(doc, filter) == filter = <<>> \/ doc.is_active = filter

\* .sort("created_at", -1): latest first, a document without created_at
\* after all that have one, equals in natural order.
RECURSIVE SortByCreatedAtDesc(_)
SortByCreatedAtDesc(S) ==
    IF S = {} THEN <<>>
    ELSE LET Key(d) == IF d.created_at = <<>> THEN 0 ELSE d.created_at[1]
             first == CHOOSE d \in S :
                        \A e \in S : Key(e) < Key(d) \/ (Key(e) = Key(d) /\ d.id <= e.id)
         IN  <<first>> \o SortByCreatedAtDesc(S \ {first})

\* .skip(skip).limit(page_size)
Page(docs, page, page_size) ==
    SubSeq(docs, (page - 1) * page_size + 1,
           IF page * page_size < Len(docs) THEN page * page_size ELSE Len(docs))

\* First await of list_links: the cursor over the filtered, sorted page is
\* read into results.
list_links_find(p) ==
    /\ pc[p] = "idle"
    /\ \E filter \in Opt(inputs.actives), page \in inputs.pages,
          page_size \in inputs.page_sizes :
         LET docs == Page(SortByCreatedAtDesc({d \in links : Matches(d, filter)}),
                          page, page_size)
             r == [IdleReq EXCEPT !.op = "list_links", !.filter = filter, !.page = page,
                                  !.page_size = page_size,
                                  !.results = [i \in 1..Len(docs) |-> LinkOut(docs[i])]]
         IN  Await(p, r, "list_count")
    /\ UNCHANGED <<inputs, callback_log, links, access_logs, files, callbacks,
                   nextLinkId, nextLogId>>

\* Second await of list_links: count_documents(filters), and the page is
\* returned with the total.
list_links_count_documents(p) ==
    /\ pc[p] = "list_count"
    /\ Respond(p, req[p],
               [NoResp EXCEPT !.status = 200, !.results = req[p].results,
                              !.total = Cardinality({d \in links : Matches(d, req[p].filter)})])
    /\ UNCHANGED <<inputs, callback_log, links, access_logs, files, callbacks,
                   nextLinkId, nextLogId>>

----------------------------------------------------------------------------
(* GET /dash/overview and GET /admin/links/{slug}/logs *)

default_days == 7

\* _parse_dt raises (datetime.fromisoformat's ValueError) on a value that
\* is given, not empty, and none of the ISO shapes.
ParseRaises(value) ==
    /\ value # <<>> /\ value[1] # <<>>
    /\ LET v == Strip(value[1])
           w == IF v # <<>> /\ v[Len(v)] = "Z" THEN SubSeq(v, 1, Len(v) - 1) ELSE v
       IN  IF Len(v) = 10 /\ v[5] = "-" /\ v[8] = "-"
             THEN ParseDate(v) = <<>>
             ELSE ParseDateTime(w) = <<>>

\* _parse_dt: None for an absent or empty parameter; a date is that day at
\* 00:00 in tz; a datetime without zone is taken in tz; one ending in Z is
\* UTC, converted to tz.
_parse_dt(value, tz) ==
    IF value = <<>> \/ value[1] = <<>> THEN <<>>
    ELSE LET v == Strip(value[1])
         IN  IF Len(v) = 10 /\ v[5] = "-" /\ v[8] = "-"
               THEN <<[wall |-> 24 * ParseDate(v)[1], off |-> tz]>>
             ELSE IF v[Len(v)] = "Z"
               THEN <<AsTimezone([wall |-> ParseDateTime(SubSeq(v, 1, Len(v) - 1))[1],
                                  off |-> UTC], tz)>>
             ELSE <<[wall |-> ParseDateTime(v)[1], off |-> tz]>>

\* dt - timedelta(days=n)
MinusDays(dt, n) == [dt EXCEPT !.wall = @ - 24 * n]

resolve_range_unordered(from_param, to_param, tz, now) ==
    LET f == _parse_dt(from_param, tz)
        t == _parse_dt(to_param, tz)
        now_local == AsTimezone([wall |-> 24 * now, off |-> UTC], tz)
        to_local == IF t = <<>> THEN now_local ELSE t[1]
        from_local == IF f = <<>> THEN MinusDays(to_local, default_days) ELSE f[1]
    IN  [tz |-> tz, from_local |-> from_local, to_local |-> to_local,
         from_utc |-> AsTimezone(from_local, UTC), to_utc |-> AsTimezone(to_local, UTC)]

\* resolve_range: an absent upper bound is now, an absent lower bound is
\* default_days before the upper one, the bounds are put in order, and
\* both are converted to UTC.  `now` is the day whose 00:00 UTC it is.
resolve_range(from_param, to_param, tz, now) ==
    LET f == _parse_dt(from_param, tz)
        t == _parse_dt(to_param, tz)
        now_local == AsTimezone([wall |-> 24 * now, off |-> UTC], tz)
        to0 == IF t = <<>> THEN now_local ELSE t[1]
        from0 == IF f = <<>> THEN MinusDays(to0, default_days) ELSE f[1]
        swap == Instant(from0) > Instant(to0)
        from_local == IF swap THEN to0 ELSE from0
        to_local == IF swap THEN from0 ELSE to0
    IN  [tz |-> tz, from_local |-> from_local, to_local |-> to_local,
         from_utc |-> AsTimezone(from_local, UTC), to_utc |-> AsTimezone(to_local, UTC)]

\* resolve_range raises when either bound does.
RangeRaises(from_param, to_param) == ParseRaises(from_param) \/ ParseRaises(to_param)

\* The 500 that an exception escaping a handler becomes.
Raised(p, r) == Respond(p, r, [NoResp EXCEPT !.status = 500, !.raised = TRUE])

\* A call of resolve_range with the request's parameters, at instant now.
resolve_range_call(p) ==
    /\ pc[p] = "idle"
    /\ \E from_ \in inputs.froms, to \in inputs.tos, tz \in inputs.tzs,
          now \in inputs.times :
         LET r == [IdleReq EXCEPT !.op = "resolve_range", !.from_param = from_,
                                  !.to_param = to, !.tz = tz, !.opts.now = now]
         IN  IF RangeRaises(from_, to) THEN Raised(p, r)
             ELSE Respond(p, r, [NoResp EXCEPT !.status = 200,
                                               !.range = resolve_range(from_, to, tz, now)])
    /\ UNCHANGED <<inputs, callback_log, links, access_logs, files, callbacks,
                   nextLinkId, nextLogId>>

\* $addFields ts: $dateFromString($timestamp), onError None, onNull None.
\* The stage replaces whatever `ts` the entry stored.
_ts_add_fields_stage(e) ==
    [e EXCEPT !.ts = IF e.timestamp = <<>> THEN <<>> ELSE ParseDate(e.timestamp[1])]

\* $match ts: {$gte: from_utc, $lte: to_utc}; a null ts matches no range.
\* An entry's time is a day, at 00:00 UTC.
_ts_match_range_stage(e, rr) ==
    /\ e.ts # <<>>
    /\ Instant(rr.from_utc) <= 24 * e.ts[1]
    /\ 24 * e.ts[1] <= Instant(rr.to_utc)

\* The entries that leave the two stages every dashboard pipeline starts with.
Matched(rr) ==
    {d \in {_ts_add_fields_stage(e) : e \in access_logs} : _ts_match_range_stage(d, rr)}

\* $max: "$ts"
MaxTs(S) == CHOOSE t \in {d.ts[1] : d \in S} : \A d \in S : d.ts[1] <= t

\* pipeline_summary, and the default when it yields no document.
Summary(rr) ==
    LET M == Matched(rr)
    IN  IF M = {} THEN [NoDash EXCEPT !.clicks_total = 0]
        ELSE [NoDash EXCEPT !.clicks_total = Cardinality(M),
                            !.unique_ips = Cardinality({d.ip : d \in M}),
                            !.last_click = <<MaxTs(M)>>]

\* pipeline_series: one point per day, in ascending order of bucket.
RECURSIVE Series(_)
Series(M) ==
    IF M = {} THEN <<>>
    ELSE LET day == CHOOSE t \in {d.ts[1] : d \in M} : \A d \in M : t <= d.ts[1]
             same == {d \in M : d.ts[1] = day}
         IN  <<[bucket |-> IsoFormat(day), clicks |-> Cardinality(same)]>>
               \o Series(M \ same)

\* pipeline_top $group: one row per slug.
TopGroups(M) ==
    {[slug |-> s, clicks |-> Cardinality({d \in M : d.slug = s}),
      last_click |-> <<MaxTs({d \in M : d.slug = s})>>] : s \in {d.slug : d \in M}}

\* $sort clicks: -1, which leaves rows of equal clicks in any order.
TopOrders(G) ==
    {f \in [1..Cardinality(G) -> G] :
        \A i, j \in 1..Cardinality(G) :
            i < j => f[i] # f[j] /\ f[i].clicks >= f[j].clicks}

Limit(rows, n) == SubSeq(rows, 1, IF Len(rows) < n THEN Len(rows) ELSE n)

RECURSIVE LinksInOrder(_)
LinksInOrder(S) ==
    IF S = {} THEN <<>>
    ELSE LET l == CHOOSE x \in S : \A y \in S : x.id <= y.id
         IN  <<l>> \o LinksInOrder(S \ {l})

\* $lookup from links on slug, $unwind preserving rows without a link,
\* $project.
RECURSIVE Lookup(_)
Lookup(rows) ==
    IF rows = <<>> THEN <<>>
    ELSE LET g == Head(rows)
             ls == LinksInOrder(LinksBySlug(g.slug))
             Row(title, url) == [slug |-> g.slug, clicks |-> g.clicks,
                                 last_click |-> g.last_click,
                                 title |-> title, original_url |-> url]
         IN  (IF ls = <<>> THEN <<Row(<<>>, <<>>)>>
              ELSE [i \in 1..Len(ls) |-> Row(<<ls[i].title>>, <<ls[i].original_url>>)])
               \o Lookup(Tail(rows))

\* overview: the range is resolved and pipeline_summary awaited.
overview(p) ==
    /\ pc[p] = "idle"
    /\ \E from_ \in inputs.froms, to \in inputs.tos, tz \in inputs.tzs,
          now \in inputs.times, top \in inputs.tops :
         LET rr == resolve_range(from_, to, tz, now)
             r == [IdleReq EXCEPT !.op = "overview", !.top = top]
         IN  IF RangeRaises(from_, to) THEN Raised(p, r)
             ELSE Await(p, [r EXCEPT !.range = rr, !.dash = Summary(rr)],
                        "overview_links_total")
    /\ UNCHANGED <<inputs, callback_log, links, access_logs, files, callbacks,
                   nextLinkId, nextLogId>>

\* links_total = await db.links.count_documents({})
overview_links_total(p) ==
    /\ pc[p] = "overview_links_total"
    /\ Await(p, [req[p] EXCEPT !.dash.links_total = Cardinality(links)],
             "overview_links_active")
    /\ UNCHANGED <<inputs, callback_log, links, access_logs, files, callbacks,
                   nextLinkId, nextLogId>>

\* links_active = await db.links.count_documents({"is_active": True})
overview_links_active(p) ==
    /\ pc[p] = "overview_links_active"
    /\ Await(p, [req[p] EXCEPT
                   !.dash.links_active = Cardinality({l \in links : l.is_active = TRUE})],
             "overview_series")
    /\ UNCHANGED <<inputs, callback_log, links, access_logs, files, callbacks,
                   nextLinkId, nextLogId>>

\* series_docs = await db.access_logs.aggregate(pipeline_series)
overview_series(p) ==
    /\ pc[p] = "overview_series"
    /\ Await(p, [req[p] EXCEPT !.dash.series = Series(Matched(req[p].range))],
             "overview_top")
    /\ UNCHANGED <<inputs, callback_log, links, access_logs, files, callbacks,
                   nextLinkId, nextLogId>>

\* top_docs = await db.access_logs.aggregate(pipeline_top).to_list(length=top),
\* and the OverviewResponse is returned.
overview_top(p) ==
    /\ pc[p] = "overview_top"
    /\ \E order \in TopOrders(TopGroups(Matched(req[p].range))) :
         LET top_links == Limit(Lookup(Limit(order, req[p].top)), req[p].top)
         IN  Respond(p, [req[p] EXCEPT !.dash = NoDash],
                     [NoResp EXCEPT !.status = 200,
                                    !.dash = [req[p].dash EXCEPT !.top_links = top_links]])
    /\ UNCHANGED <<inputs, callback_log, links, access_logs, files, callbacks,
                   nextLinkId, nextLogId>>

\* .sort("ts", -1): an entry without ts sorts after every dated one; equal
\* keys keep the order of insertion.
RECURSIVE SortByTsDesc(_)
SortByTsDesc(S) ==
    IF S = {} THEN <<>>
    ELSE LET Key(d) == IF d.ts = <<>> THEN 0 ELSE d.ts[1]
             first == CHOOSE d \in S :
                        \A e \in S : Key(e) < Key(d) \/ (Key(e) = Key(d) /\ d.id <= e.id)
         IN  <<first>> \o SortByTsDesc(S \ {first})

\* get_link_access_logs: the slug's entries by ts descending, up to limit,
\* each with `timestamp` rewritten from `ts` when ts is a datetime; 204
\* when there is none.
get_link_access_logs(p) ==
    /\ pc[p] = "idle"
    /\ \E slug \in inputs.redirect_slugs, limit \in inputs.limits :
         LET r == [IdleReq EXCEPT !.op = "get_link_access_logs", !.slug = slug,
                                  !.limit = limit]
             docs == Limit(SortByTsDesc({e \in access_logs : e.slug = slug}), limit)
             logs_out == [i \in 1..Len(docs) |->
                            IF docs[i].ts # <<>>
                              THEN [docs[i] EXCEPT !.timestamp = <<IsoFormat(docs[i].ts[1])>>]
                              ELSE docs[i]]
         IN  IF logs_out = <<>>
               THEN Respond(p, r, [NoResp EXCEPT !.status = 204])
               ELSE Respond(p, r, [NoResp EXCEPT !.status = 200, !.results = logs_out])
    /\ UNCHANGED <<inputs, callback_log, links, access_logs, files, callbacks,
                   nextLinkId, nextLogId>>

----------------------------------------------------------------------------
(* GET /dash/links *)

\* filters["is_active"] = is_active, when given, on documents that
\* shorten_link stored.
DashMatches(doc, filter) == filter = <<>> \/ doc.is_active = filter[1]

\* The $lookup of a link's metrics: its entries after the two timestamp
\* stages; the $unwind and $ifNull give 0 clicks and no last_click to a
\* link without any.
LinkListItem(doc, rr) ==
    LET M == {e \in Matched(rr) : e.slug = doc.slug}
    IN  [id |-> doc.id, slug |-> doc.slug, is_active |-> doc.is_active,
         created_at |-> doc.created_at,
         clicks |-> Cardinality(M),
         unique_ips |-> Cardinality({e.ip : e \in M}),
         last_click |-> IF M = {} THEN <<>> ELSE <<MaxTs(M)>>]

\* key of items.sort: x.clicks, or x.last_click with datetime.min for None.
SortKey(item, sort) ==
    IF sort = "clicks_desc" THEN item.clicks
    ELSE IF item.last_click = <<>> THEN 0 ELSE item.last_click[1]

\* items.sort(key=..., reverse=True): stable, so items of equal key keep
\* their order.
RECURSIVE SortItems(_, _)
SortItems(items, sort) ==
    IF items = <<>> THEN <<>>
    ELSE LET i == CHOOSE i \in 1..Len(items) :
                    /\ \A j \in 1..Len(items) : SortKey(items[j], sort) <= SortKey(items[i], sort)
                    /\ \A j \in 1..(i - 1) : SortKey(items[j], sort) < SortKey(items[i], sort)
         IN  <<items[i]>> \o SortItems(SubSeq(items, 1, i - 1)
                                        \o SubSeq(items, i + 1, Len(items)), sort)

\* First await of the dashboard's list_links: the range is resolved and
\* the matching links are counted.
dash_list_links_count_documents(p) ==
    /\ pc[p] = "idle"
    /\ \E from_ \in inputs.froms, to \in inputs.tos, tz \in inputs.tzs,
          now \in inputs.times,
          filter \in Opt(inputs.actives), sort \in inputs.sorts,
          page \in inputs.pages, page_size \in inputs.page_sizes :
         LET r == [IdleReq EXCEPT !.op = "dash_list_links",
                                  !.filter = filter, !.sort = sort, !.page = page,
                                  !.page_size = page_size]
         IN  IF RangeRaises(from_, to) THEN Raised(p, r)
             ELSE Await(p, [r EXCEPT
                              !.range = resolve_range(from_, to, tz, now),
                              !.updated = Cardinality({d \in links : DashMatches(d, filter)})],
                        "dash_list_aggregate")
    /\ UNCHANGED <<inputs, callback_log, links, access_logs, files, callbacks,
                   nextLinkId, nextLogId>>

\* Second await: the page is cut from the links by created_at descending,
\* each link gets its metrics, and the page's items are sorted by the
\* requested key.
dash_list_links_aggregate(p) ==
    /\ pc[p] = "dash_list_aggregate"
    /\ LET r == req[p]
           docs == Page(SortByCreatedAtDesc({d \in links : DashMatches(d, r.filter)}),
                        r.page, r.page_size)
           items == [i \in 1..Len(docs) |-> LinkListItem(docs[i], r.range)]
       IN  Respond(p, [r EXCEPT !.updated = 0],
                   [NoResp EXCEPT !.status = 200, !.total = r.updated,
                                  !.results = IF r.sort = "created_desc" THEN items
                                              ELSE SortItems(items, r.sort)])
    /\ UNCHANGED <<inputs, callback_log, links, access_logs, files, callbacks,
                   nextLinkId, nextLogId>>

----------------------------------------------------------------------------
(* GET /dash/links/{slug}/stats *)

\* $switch of the device_type facet: the first flag that equals true, in
\* the order mobile, tablet, pc; "other" when none does.
DeviceType(e) ==
    IF e.is_mobile = <<TRUE>> THEN "mobile"
    ELSE IF e.is_tablet = <<TRUE>> THEN "tablet"
    ELSE IF e.is_pc = <<TRUE>> THEN "pc"
    ELSE "other"

DeviceTypeGroupsPerFlag(M) ==
    {g \in {[key |-> "mobile", count |-> Cardinality({e \in M : e.is_mobile = <<TRUE>>})],
            [key |-> "tablet", count |-> Cardinality({e \in M : e.is_tablet = <<TRUE>>})],
            [key |-> "pc", count |-> Cardinality({e \in M : e.is_pc = <<TRUE>>})]} :
        g.count > 0}

\* $group _id: "$device_type", count: $sum 1
DeviceTypeGroups(M) ==
    {[key |-> k, count |-> Cardinality({e \in M : DeviceType(e) = k})] :
        k \in {DeviceType(e) : e \in M}}

\* $sort count: -1, which leaves groups of equal count in any order.
CountOrders(G) ==
    {f \in [1..Cardinality(G) -> G] :
        \A i, j \in 1..Cardinality(G) :
            i < j => f[i] # f[j] /\ f[i].count >= f[j].count}

\* link_stats: the range is resolved and the link looked up by slug for
\* the snapshot of the response.
link_stats_find_one(p) ==
    /\ pc[p] = "idle"
    /\ \E slug \in inputs.redirect_slugs, from_ \in inputs.froms, to \in inputs.tos,
          tz \in inputs.tzs, now \in inputs.times :
         LET r0 == [IdleReq EXCEPT !.op = "link_stats", !.slug = slug]
             r == [r0 EXCEPT !.range = resolve_range(from_, to, tz, now)]
         IN  IF RangeRaises(from_, to) THEN Raised(p, r0)
             ELSE \/ /\ LinksBySlug(slug) = {}
                     /\ Await(p, r, "stats_aggregate")
                  \/ \E doc \in LinksBySlug(slug) :
                        Await(p, [r EXCEPT !.snapshot = <<[id |-> doc.id, slug |-> doc.slug,
                                                           is_active |-> doc.is_active]>>],
                              "stats_aggregate")
    /\ UNCHANGED <<inputs, callback_log, links, access_logs, files, callbacks,
                   nextLinkId, nextLogId>>

\* The one $facet aggregate over the slug's entries in the range, and the
\* LinkStatsResponse.  (The browsers, os, referers and geo facets group on
\* fields that no other operation reads; they are left out.)
link_stats_aggregate(p) ==
    /\ pc[p] = "stats_aggregate"
    /\ LET r == req[p]
           M == {e \in Matched(r.range) : e.slug = r.slug}
       IN  \E order \in CountOrders(DeviceTypeGroups(M)) :
             Respond(p, r,
                     [NoResp EXCEPT
                        !.status = 200, !.snapshot = r.snapshot,
                        !.stats = [clicks_total |-> Cardinality(M),
                                   unique_ips |-> Cardinality({e.ip : e \in M}),
                                   last_click |-> IF M = {} THEN <<>> ELSE <<MaxTs(M)>>,
                                   series |-> Series(M),
                                   device_type |-> order]])
    /\ UNCHANGED <<inputs, callback_log, links, access_logs, files, callbacks,
                   nextLinkId, nextLogId>>

----------------------------------------------------------------------------
(* utils/device.py get_geo_from_ip *)

\* An IP string is the sequence of the numbers between its dots;
\* ipaddress.ip_address accepts four numbers of at most 255 each.
ValidIp(ip) == Len(ip) = 4 /\ \A i \in 1..4 : ip[i] <= 255

\* ipaddress: IPv4Address.is_loopback is 127.0.0.0/8.
is_loopback(ip) == ip[1] = 127

\* ipaddress: IPv4Address.is_reserved is 240.0.0.0/4.
is_reserved(ip) == ip[1] >= 240

\* ipaddress: IPv4Address.is_private is membership of one of the networks
\* of the IANA special-purpose registry that are not globally reachable.
is_private(ip) ==
    \/ ip[1] = 0
    \/ ip[1] = 10
    \/ ip[1] = 127
    \/ ip[1] = 169 /\ ip[2] = 254
    \/ ip[1] = 172 /\ ip[2] >= 16 /\ ip[2] <= 31
    \/ ip[1] = 192 /\ ip[2] = 0 /\ ip[3] = 0 /\ (ip[4] <= 7 \/ ip[4] \in {170, 171})
    \/ ip[1] = 192 /\ ip[2] = 0 /\ ip[3] = 2
    \/ ip[1] = 192 /\ ip[2] = 168
    \/ ip[1] = 198 /\ ip[2] \in {18, 19}
    \/ ip[1] = 198 /\ ip[2] = 51 /\ ip[3] = 100
    \/ ip[1] = 203 /\ ip[2] = 0 /\ ip[3] = 113
    \/ ip[1] >= 240

_is_private_ip_site_local_only(ip) ==
    /\ ValidIp(ip)
    /\ \/ ip[1] = 10
       \/ ip[1] = 172 /\ ip[2] >= 16 /\ ip[2] <= 31
       \/ ip[1] = 192 /\ ip[2] = 168

\* _is_private_ip: a string that is not an address counts as private.
_is_private_ip(ip) ==
    IF ValidIp(ip) THEN is_private(ip) \/ is_loopback(ip) \/ is_reserved(ip) ELSE TRUE

\* What the GET can come to: no answer within 2 seconds, an error status,
\* a body that is not JSON, or a JSON body.
LookupKinds == {"timeout", "non_2xx", "not_json", "json"}

\* `data.get(key)` of a JSON object: the key's value, None when missing.
Get(data, key) == data[key]

\* First segment of get_geo_from_ip: {} without an ip, {"ip": ip} for a
\* private one, otherwise the GET to ipapi.co is issued.
get_geo_from_ip(p) ==
    /\ pc[p] = "idle"
    /\ \E ip \in inputs.ips :
         LET r == [IdleReq EXCEPT !.op = "get_geo_from_ip", !.ip = ip]
         IN  IF ip = <<>>
               THEN Respond(p, r, NoResp)
               ELSE IF _is_private_ip(ip)
                 THEN Respond(p, r, [NoResp EXCEPT !.geo = [NoGeo EXCEPT !.ip = <<ip>>]])
                 ELSE Await(p, [r EXCEPT !.lookups = @ + 1], "geo_get")
    /\ UNCHANGED <<inputs, callback_log, links, access_logs, files, callbacks,
                   nextLinkId, nextLogId>>

\* The GET ends.  Whatever raises inside the try (timeout, raise_for_status,
\* resp.json()) yields {"ip": ip}; the result is built from data after the
\* try, by data.get, which raises when data is not a JSON object.
get_geo_from_ip_get(p) ==
    /\ pc[p] = "geo_get"
    /\ \E outcome \in inputs.lookup_outcomes :
         LET r == [req[p] EXCEPT !.outcome = outcome]
             ip == req[p].ip
             data == outcome.data
         IN  IF outcome.kind # "json"
               THEN Respond(p, r, [NoResp EXCEPT !.geo = [NoGeo EXCEPT !.ip = <<ip>>]])
               ELSE IF ~ data.object
                 THEN Respond(p, r, [NoResp EXCEPT !.raised = TRUE])
                 ELSE Respond(p, r,
                        [NoResp EXCEPT !.geo = [ip |-> <<ip>>,
                                                country |-> Get(data, "country_name"),
                                                country_code |-> Get(data, "country"),
                                                city |-> Get(data, "city"),
                                                raw |-> <<data>>]])
    /\ UNCHANGED <<inputs, callback_log, links, access_logs, files, callbacks,
                   nextLinkId, nextLogId>>

----------------------------------------------------------------------------
(* utils/device.py parse_user_agent *)

\* What user_agents.parse makes of the strings its patterns recognise: the
\* three flags, and family and version string of browser, OS and device.
Recognised ==
    [u \in {Iphone, Desktop} |->
       IF u = Iphone
         THEN [is_mobile |-> TRUE, is_tablet |-> FALSE, is_pc |-> FALSE,
               browser |-> <<"Mobile Safari">>, browser_version |-> <<"17.0">>,
               os |-> <<"iOS">>, os_version |-> <<"17.0">>, device |-> <<"iPhone">>]
         ELSE [is_mobile |-> FALSE, is_tablet |-> FALSE, is_pc |-> TRUE,
               browser |-> <<"Chrome">>, browser_version |-> <<"120.0.0">>,
               os |-> <<"Windows">>, os_version |-> <<"10">>, device |-> <<"Other">>]]

\* user_agents.parse of a string no pattern recognises (the empty string
\* among them): every family is "Other", every version string is empty,
\* every flag is false.
Unrecognised ==
    [is_mobile |-> FALSE, is_tablet |-> FALSE, is_pc |-> FALSE,
     browser |-> <<"Other">>, browser_version |-> <<"">>,
     os |-> <<"Other">>, os_version |-> <<"">>, device |-> <<"Other">>]

\* parse_user_agent: the fields of parse(ua_string); parse raises TypeError
\* when ua_string is None, its patterns being searched in it.
parse_user_agent(p) ==
    /\ pc[p] = "idle"
    /\ \E ua \in Opt(inputs.user_agents) :
         LET r == [IdleReq EXCEPT !.op = "parse_user_agent", !.ua = ua]
         IN  IF ua = <<>>
               THEN Respond(p, r, [NoResp EXCEPT !.raised = TRUE])
               ELSE IF ua[1] \in DOMAIN Recognised
                 THEN Respond(p, r, [NoResp EXCEPT !.device = <<Recognised[ua[1]]>>])
                 ELSE Respond(p, r, [NoResp EXCEPT !.device = <<Unrecognised>>])
    /\ UNCHANGED <<inputs, callback_log, links, access_logs, files, callbacks,
                   nextLinkId, nextLogId>>

----------------------------------------------------------------------------
(* GET /{slug}: the Redirect Engine, Resolve(slug, requestContext) *)

\* One key of an ordered key -> value mapping is set: an existing key keeps
\* its position and takes the new value, a new key goes last.
Put(m, k, v) ==
    IF \E i \in 1..Len(m) : m[i][1] = k
      THEN [i \in 1..Len(m) |-> IF m[i][1] = k THEN <<k, v>> ELSE m[i]]
      ELSE Append(m, <<k, v>>)

RECURSIVE PutAll(_, _)
PutAll(m, pairs) ==
    IF pairs = <<>> THEN m
    ELSE PutAll(Put(m, Head(pairs)[1], Head(pairs)[2]), Tail(pairs))

\* A query string parsed into an ordered key -> value mapping.
ParseQuery(pairs) == PutAll(<<>>, pairs)

DestinationAlwaysMerged(url, query) ==
    [url EXCEPT !.query = PutAll(ParseQuery(url.query), query)]

DestinationExistingWins(url, query) ==
    IF query = <<>> THEN url
    ELSE [url EXCEPT !.query = PutAll(ParseQuery(query), url.query)]

\* Destination computation: verbatim without an incoming query string,
\* otherwise the incoming parameters overlaid on the destination's own.
Destination(url, query) ==
    IF query = <<>> THEN url
    ELSE [url EXCEPT !.query = PutAll(ParseQuery(url.query), query)]

Outcomes == {"ok", "timeout", "connection_error", "non_2xx"}

RejectableNever(link, now) == FALSE

\* The policy point of Lookup: a link that is inactive, expired at `now` or
\* at its max-click limit.
Rejectable(link, now) ==
    \/ ~ link.is_active
    \/ link.expires_at # <<>> /\ link.expires_at[1] <= now
    \/ link.max_clicks # <<>> /\ link.click_count >= link.max_clicks[1]

\* Lookup: the link is fetched by slug; NotFound when absent.  Where the
\* deployment enforces the policy (inputs.enforce), a rejectable link is
\* answered Gone.
resolve_lookup(p) ==
    /\ pc[p] = "idle"
    /\ \E slug \in inputs.redirect_slugs, query \in inputs.queries, now \in inputs.times :
         LET r == [IdleReq EXCEPT !.op = "redirect", !.slug = slug, !.query = query,
                                  !.opts.now = now]
         IN  IF LinksBySlug(slug) = {}
               THEN Respond(p, r, [NoResp EXCEPT !.status = 404])
               ELSE \E link \in LinksBySlug(slug) :
                      IF inputs.enforce /\ Rejectable(link, now)
                        THEN Respond(p, [r EXCEPT !.link = link],
                                     [NoResp EXCEPT !.status = 410])
                        ELSE /\ nextLogId + PendingLogs <= MaxLogs
                             /\ Await(p, [r EXCEPT !.link = link,
                                                   !.dest = Destination(link.original_url, query)],
                                      "redirect_log")
    /\ UNCHANGED <<inputs, callback_log, links, access_logs, files, callbacks,
                   nextLinkId, nextLogId>>

resolve_append_log_skipped(p) ==
    /\ pc[p] = "redirect_log"
    /\ Await(p, req[p], "redirect_dispatch")
    /\ UNCHANGED <<inputs, callback_log, links, access_logs, files, callbacks,
                   nextLinkId, nextLogId>>

\* An access-log entry of the current schema generation: its time is a
\* native datetime under `ts`, and it has no legacy `timestamp` string.
NewLogEntry(id, slug, final_url, now) ==
    [id |-> id, slug |-> slug, final_url |-> final_url, ts |-> <<now>>, timestamp |-> <<>>,
     ip |-> "203.0.113.9", is_mobile |-> <<FALSE>>, is_tablet |-> <<FALSE>>,
     is_pc |-> <<TRUE>>]

\* The AccessLogEntry is appended and its generated id captured.
resolve_append_log(p) ==
    /\ pc[p] = "redirect_log"
    /\ \E now \in inputs.times :
         access_logs' = access_logs \cup
                          {NewLogEntry(nextLogId, req[p].slug, req[p].dest, now)}
    /\ nextLogId' = nextLogId + 1
    /\ Await(p, [req[p] EXCEPT !.log_id = nextLogId], "redirect_dispatch")
    /\ UNCHANGED <<inputs, callback_log, links, files, callbacks, nextLinkId>>

resolve_append_log_failed_raising(p) ==
    /\ pc[p] = "redirect_log"
    /\ Respond(p, req[p], [NoResp EXCEPT !.status = 500])
    /\ UNCHANGED <<inputs, callback_log, links, access_logs, files, callbacks,
                   nextLinkId, nextLogId>>

\* The Access Log Store append fails: nothing is stored, no id is generated,
\* and the redirect goes on.
resolve_append_log_failed(p) ==
    /\ pc[p] = "redirect_log"
    /\ Await(p, req[p], "redirect_dispatch")
    /\ UNCHANGED <<inputs, callback_log, links, access_logs, files, callbacks,
                   nextLinkId, nextLogId>>

\* `if the link defines a callback URL`
CallbackDue(link) == link.callback_url # ""

resolve_dispatch_awaiting(p) ==
    /\ pc[p] = "redirect_dispatch"
    /\ IF CallbackDue(req[p].link) /\ callback_log.body_id # req[p].log_id
         THEN /\ callbacks' = callbacks \cup {[url |-> req[p].link.callback_url,
                                               body_id |-> req[p].log_id]}
              /\ Await(p, req[p], "redirect_dispatch")
         ELSE /\ callbacks' = callbacks
              /\ Respond(p, req[p], [NoResp EXCEPT !.status = 307, !.dest = req[p].dest])
    /\ UNCHANGED <<inputs, callback_log, links, access_logs, files, nextLinkId, nextLogId>>

\* The callback is handed to a detached task when the link defines one, and
\* the destination is returned without awaiting it.
resolve_dispatch(p) ==
    /\ pc[p] = "redirect_dispatch"
    /\ callbacks' = IF CallbackDue(req[p].link)
                      THEN callbacks \cup {[url |-> req[p].link.callback_url,
                                            body_id |-> req[p].log_id]}
                      ELSE callbacks
    /\ Respond(p, req[p], [NoResp EXCEPT !.status = 307, !.dest = req[p].dest])
    /\ UNCHANGED <<inputs, callback_log, links, access_logs, files, nextLinkId, nextLogId>>

\* The callback dispatch itself fails: no POST is started, and the
\* destination is returned all the same.
resolve_dispatch_failed(p) ==
    /\ pc[p] = "redirect_dispatch"
    /\ CallbackDue(req[p].link)
    /\ Respond(p, req[p], [NoResp EXCEPT !.status = 307, !.dest = req[p].dest])
    /\ UNCHANGED <<inputs, callback_log, links, access_logs, files, callbacks,
                   nextLinkId, nextLogId>>

callback_post_propagating(c) ==
    /\ c \in callbacks
    /\ callbacks' = callbacks \ {c}
    /\ \E outcome \in Outcomes :
         /\ callback_log' = [body_id |-> c.body_id, outcome |-> outcome]
         /\ last' = IF outcome # "ok" /\ last.req.log_id = c.body_id
                      THEN [last EXCEPT !.resp = [NoResp EXCEPT !.status = 502]]
                      ELSE last
    /\ UNCHANGED <<inputs, links, access_logs, files, nextLinkId, nextLogId, pc, req>>

callback_post_retrying(c) ==
    /\ c \in callbacks
    /\ \E outcome \in Outcomes :
         /\ callback_log' = [body_id |-> c.body_id, outcome |-> outcome]
         /\ callbacks' = IF outcome = "ok" THEN callbacks \ {c} ELSE callbacks
    /\ UNCHANGED <<inputs, links, access_logs, files, nextLinkId, nextLogId, pc, req, last>>

\* The detached callback POST ends: delivered, timed out, connection failed
\* or answered non-2xx.  A failure is logged and swallowed.
callback_post(c) ==
    /\ c \in callbacks
    /\ callbacks' = callbacks \ {c}
    /\ \E outcome \in Outcomes :
         callback_log' = [body_id |-> c.body_id, outcome |-> outcome]
    /\ UNCHANGED <<inputs, links, access_logs, files, nextLinkId, nextLogId, pc, req, last>>

----------------------------------------------------------------------------
(* Specifications *)

\* Admin requests over the Link Store.
Next ==
    \E p \in Procs :
        \/ shorten_link_find_one(p)
        \/ shorten_link_insert_one(p)
        \/ delete_link_find_one(p)
        \/ delete_link_update_many(p)
        \/ delete_link_delete_one(p)
        \/ update_link_update_one(p)
        \/ update_link_find_one(p)

Spec == Init /\ [][Next]_vars

\* Slug abc was deleted earlier today, which left the one access log of
\* that link under the tombstoned slug, and has been reissued to the link
\* the store holds now, which has one access log of its own.  Admins ask
\* for abc and for a custom slug that has the shape of a tombstone.
InitTombstone ==
    /\ callbacks = {}
    /\ callback_log = NoCallback
    /\ pc = [p \in Tasks |-> "idle"]
    /\ req = [p \in Tasks |-> IdleReq]
    /\ last = [req |-> IdleReq, resp |-> NoResp]
    /\ links = {NewLinkDoc(1, Abc, PlainUrl, "", "name", <<>>, 1)}
    /\ files = generate_qr(Abc)
    /\ nextLinkId = 2
    /\ \E today \in Dates :
         /\ access_logs = {NewLogEntry(1, TombstoneSlug(Abc, today), PlainUrl, 1),
                           NewLogEntry(2, Abc, PlainUrl, 1)}
         /\ inputs = [AdminInputs EXCEPT !.custom_slugs = {Abc, TombstoneSlug(Abc, today)}]
    /\ nextLogId = 3

\* Link creation and deletion only.
NextShorten ==
    \E p \in Procs :
        \/ shorten_link_find_one(p)
        \/ shorten_link_insert_one(p)
        \/ delete_link_find_one(p)
        \/ delete_link_update_many(p)
        \/ delete_link_delete_one(p)

SpecShorten == Init /\ [][NextShorten]_vars

SpecTombstone == InitTombstone /\ [][NextShorten]_vars

\* Redirects, their callbacks, and admin deletion.
NextRedirect ==
    \/ \E p \in Procs :
          \/ delete_link_find_one(p)
          \/ delete_link_update_many(p)
          \/ delete_link_delete_one(p)
          \/ resolve_lookup(p)
          \/ resolve_append_log(p)
          \/ resolve_dispatch(p)
    \/ \E c \in callbacks : callback_post(c)

SpecRedirect == InitRedirect /\ [][NextRedirect]_vars

\* Redirects and their callbacks over a store that is not being modified.
NextDispatch ==
    \/ \E p \in Procs :
          \/ resolve_lookup(p)
          \/ resolve_append_log(p)
          \/ resolve_dispatch(p)
    \/ \E c \in callbacks : callback_post(c)

\* A link that is inactive, expired, at its click limit, or none of these
\* (its expiry and limit still ahead), in a deployment that enforces the
\* policy or in one that does not.
InitPolicy ==
    /\ InitStore
    /\ \E cb \in CallbackUrls, enforce \in BOOLEAN,
          state \in {[is_active |-> FALSE, expires_at |-> <<>>, max_clicks |-> <<>>, click_count |-> 0],
                     [is_active |-> TRUE, expires_at |-> <<1>>, max_clicks |-> <<>>, click_count |-> 0],
                     [is_active |-> TRUE, expires_at |-> <<>>, max_clicks |-> <<2>>, click_count |-> 2],
                     [is_active |-> TRUE, expires_at |-> <<5>>, max_clicks |-> <<2>>, click_count |-> 1]} :
         /\ links = {[NewLinkDoc(1, Abc, PlainUrl, cb, "name", <<>>, 1) EXCEPT
                        !.is_active = state.is_active, !.expires_at = state.expires_at,
                        !.max_clicks = state.max_clicks, !.click_count = state.click_count]}
         /\ inputs = [RedirectInputs EXCEPT !.enforce = enforce]
    /\ files = generate_qr(Abc)
    /\ nextLinkId = 2

SpecPolicy == InitPolicy /\ [][NextDispatch]_vars

\* The event loop runs every redirect that is past its lookup to its end;
\* nothing obliges a callback POST ever to end.
SpecDispatchFair ==
    /\ InitRedirect
    /\ [][NextDispatch]_vars
    /\ \A p \in Procs : WF_vars(resolve_append_log(p)) /\ WF_vars(resolve_dispatch(p))

\* Redirects whose access-log append or callback dispatch may fail.
NextFaults ==
    \/ \E p \in Procs :
          \/ resolve_lookup(p)
          \/ resolve_append_log(p)
          \/ resolve_append_log_failed(p)
          \/ resolve_dispatch(p)
          \/ resolve_dispatch_failed(p)
    \/ \E c \in callbacks : callback_post(c)

SpecFaults == InitRedirect /\ [][NextFaults]_vars

\* PATCH requests, QR regeneration and the two maintenance scripts.
NextMaintain ==
    \/ \E p \in Procs :
          \/ update_link_update_one(p)
          \/ update_link_find_one(p)
          \/ regenerate_qr_codes_find_one(p)
          \/ regenerate_qr_codes_update_one(p)
    \/ qr_cleanup_find(Script)
    \/ qr_cleanup_last_access(Script)
    \/ qr_cleanup_update_one(Script)
    \/ qr_fix_missing_find(Script)
    \/ qr_fix_missing_update_one(Script)

SpecMaintain == InitMaintain /\ [][NextMaintain]_vars

\* QR regeneration requests while the cleanup script runs.
NextRegenerate ==
    \/ \E p \in Procs :
          \/ regenerate_qr_codes_find_one(p)
          \/ regenerate_qr_codes_update_one(p)
    \/ qr_cleanup_find(Script)
    \/ qr_cleanup_last_access(Script)
    \/ qr_cleanup_update_one(Script)

SpecRegenerate == InitMaintain /\ [][NextRegenerate]_vars

\* Calls of the Enrichment Service.
NextEnrichment ==
    \E p \in Procs :
        \/ get_geo_from_ip(p)
        \/ get_geo_from_ip_get(p)
        \/ parse_user_agent(p)

InitEnrichment ==
    /\ InitStore
    /\ links = {} /\ files = {} /\ nextLinkId = 1
    /\ inputs = EnrichmentInputs

SpecEnrichment == InitEnrichment /\ [][NextEnrichment]_vars

\* The store holds a legacy document, valid, invalid or without status,
\* and a document of the current schema, active or not.
InitRead ==
    /\ InitStore
    /\ \E status \in Opt({"valid", "invalid"}), is_active \in BOOLEAN :
         links = {LegacyDoc(1, Abc, status, IsoFormat(5)),
                  CurrentDoc(2, <<"k", "3", "X", "q", "9", "Z">>, is_active, 7)}
    /\ files = {}
    /\ nextLinkId = 3
    /\ inputs = ReadInputs

\* Admin reads of the Link Store.
NextRead ==
    \E p \in Procs :
        \/ get_link(p)
        \/ list_links_find(p)
        \/ list_links_count_documents(p)

SpecRead == InitRead /\ [][NextRead]_vars

\* An access-log entry of the legacy schema generation: its time is an ISO
\* string under `timestamp`, and it has no `ts`.
LegacyLogEntry(id, slug, final_url, now, ip) ==
    [id |-> id, slug |-> slug, final_url |-> final_url, ts |-> <<>>,
     timestamp |-> <<IsoFormat(now)>>, ip |-> ip, is_mobile |-> <<FALSE>>,
     is_tablet |-> <<FALSE>>, is_pc |-> <<TRUE>>]

\* An access-log entry of the current schema generation, from a given client.
NativeLogEntry(id, slug, final_url, now, ip) ==
    [NewLogEntry(id, slug, final_url, now) EXCEPT !.ip = ip]

\* Three clicks were recorded, on days 3, 5 and 5, two of them on a slug
\* that has a link; each was stored by either schema generation.
InitDash ==
    /\ callbacks = {}
    /\ callback_log = NoCallback
    /\ pc = [p \in Tasks |-> "idle"]
    /\ req = [p \in Tasks |-> IdleReq]
    /\ last = [req |-> IdleReq, resp |-> NoResp]
    /\ links = {NewLinkDoc(1, Abc, PlainUrl, "", "name", <<>>, 1)}
    /\ files = {}
    /\ nextLinkId = 2
    /\ \E e1 \in {LegacyLogEntry(1, Abc, PlainUrl, 3, "198.51.100.7"),
                  NativeLogEntry(1, Abc, PlainUrl, 3, "198.51.100.7")},
          e2 \in {LegacyLogEntry(2, Abc, PlainUrl, 5, "203.0.113.9"),
                  NativeLogEntry(2, Abc, PlainUrl, 5, "203.0.113.9")},
          e3 \in {LegacyLogEntry(3, Ab, PlainUrl, 5, "198.51.100.7"),
                  NativeLogEntry(3, Ab, PlainUrl, 5, "198.51.100.7")} :
         access_logs = {e1, e2, e3}
    /\ nextLogId = 4
    /\ inputs = DashInputs

\* Link abc was created at 1 and link ab, never followed, at 5; abc is
\* active or not, and was never followed, or was followed at 2 or at 5,
\* the click stored by either schema generation; the QR files of the two
\* links are under /app/src/static, except that abc.png may be missing.
InitScripts ==
    /\ callbacks = {}
    /\ callback_log = NoCallback
    /\ pc = [p \in Tasks |-> "idle"]
    /\ req = [p \in Tasks |-> IdleReq]
    /\ last = [req |-> IdleReq, resp |-> NoResp]
    /\ \E active \in BOOLEAN :
         links = {[NewLinkDoc(1, Abc, PlainUrl, "", "name", <<>>, 1)
                     EXCEPT !.is_active = active],
                  NewLinkDoc(2, Ab, PlainUrl, "", "name", <<>>, 5)}
    /\ \E missing \in SUBSET { <<"src/static", Abc, "png">> } :
         files = { <<"src/static", slug, ext>> : slug \in {Abc, Ab}, ext \in {"png", "svg"} }
                   \ missing
    /\ nextLinkId = 3
    /\ \E t \in {2, 5} :
         access_logs \in {{}, {LegacyLogEntry(1, Abc, PlainUrl, t, "203.0.113.9")},
                              {NativeLogEntry(1, Abc, PlainUrl, t, "203.0.113.9")}}
    /\ nextLogId = 2
    /\ inputs = ScriptInputs

\* Runs of the two maintenance scripts, one after the other.
NextScripts ==
    \/ qr_cleanup_find(Script)
    \/ qr_cleanup_last_access(Script)
    \/ qr_cleanup_update_one(Script)
    \/ qr_fix_missing_find(Script)
    \/ qr_fix_missing_update_one(Script)

SpecScripts == InitScripts /\ [][NextScripts]_vars

\* The store holds one link, not yet followed.
InitDashLive ==
    /\ InitStore
    /\ links = {NewLinkDoc(1, Abc, PlainUrl, "", "name", <<>>, 1)}
    /\ files = generate_qr(Abc)
    /\ nextLinkId = 2
    /\ inputs = DashLiveInputs

\* Overview requests while the stores are being written.
NextDashLive ==
    \E p \in Procs :
        \/ overview(p)
        \/ overview_links_total(p)
        \/ overview_links_active(p)
        \/ overview_series(p)
        \/ overview_top(p)
        \/ shorten_link_find_one(p)
        \/ shorten_link_insert_one(p)
        \/ delete_link_find_one(p)
        \/ delete_link_update_many(p)
        \/ delete_link_delete_one(p)
        \/ resolve_lookup(p)
        \/ resolve_append_log(p)
        \/ resolve_dispatch(p)

SpecDashLive == InitDashLive /\ [][NextDashLive]_vars

AllFlags == [is_mobile |-> <<TRUE>>, is_tablet |-> <<TRUE>>, is_pc |-> <<TRUE>>]

AbsentFlags == [is_mobile |-> <<>>, is_tablet |-> <<>>, is_pc |-> <<>>]

\* The device flags of stored entries: one flag, several flags, none, and
\* flags that are absent.
DeviceFlags ==
    {[is_mobile |-> <<TRUE>>, is_tablet |-> <<FALSE>>, is_pc |-> <<FALSE>>],
     AllFlags,
     [is_mobile |-> <<FALSE>>, is_tablet |-> <<TRUE>>, is_pc |-> <<TRUE>>],
     [is_mobile |-> <<FALSE>>, is_tablet |-> <<FALSE>>, is_pc |-> <<TRUE>>],
     [is_mobile |-> <<FALSE>>, is_tablet |-> <<FALSE>>, is_pc |-> <<FALSE>>],
     AbsentFlags}

WithFlags(e, f) ==
    [e EXCEPT !.is_mobile = f.is_mobile, !.is_tablet = f.is_tablet, !.is_pc = f.is_pc]

\* Three clicks on abc on days 3, 5 and 5: one with any device flags, one
\* with every flag set, one with none stored.
InitStats ==
    /\ callbacks = {}
    /\ callback_log = NoCallback
    /\ pc = [p \in Tasks |-> "idle"]
    /\ req = [p \in Tasks |-> IdleReq]
    /\ last = [req |-> IdleReq, resp |-> NoResp]
    /\ links = {NewLinkDoc(1, Abc, PlainUrl, "", "name", <<>>, 1)}
    /\ files = {}
    /\ nextLinkId = 2
    /\ \E f1 \in DeviceFlags :
         access_logs = {WithFlags(LegacyLogEntry(1, Abc, PlainUrl, 3, "198.51.100.7"), f1),
                        WithFlags(LegacyLogEntry(2, Abc, PlainUrl, 5, "203.0.113.9"), AllFlags),
                        WithFlags(LegacyLogEntry(3, Abc, PlainUrl, 5, "198.51.100.7"),
                                  AbsentFlags)}
    /\ nextLogId = 4
    /\ inputs = [DashInputs EXCEPT !.redirect_slugs = {Abc, Ab}]

NextStats ==
    \E p \in Procs :
        \/ link_stats_find_one(p)
        \/ link_stats_aggregate(p)

SpecStats == InitStats /\ [][NextStats]_vars

\* Two links, abc the older, and two clicks in the range, each on either
\* link.
InitDashList ==
    /\ callbacks = {}
    /\ callback_log = NoCallback
    /\ pc = [p \in Tasks |-> "idle"]
    /\ req = [p \in Tasks |-> IdleReq]
    /\ last = [req |-> IdleReq, resp |-> NoResp]
    /\ links = {NewLinkDoc(1, Abc, PlainUrl, "", "name", <<>>, 1),
                NewLinkDoc(2, <<"k", "3", "X", "q", "9", "Z">>, PlainUrl, "", "name", <<>>, 2)}
    /\ files = {}
    /\ nextLinkId = 3
    /\ \E s1, s2 \in {Abc, <<"k", "3", "X", "q", "9", "Z">>} :
         access_logs = {LegacyLogEntry(1, s1, PlainUrl, 3, "198.51.100.7"),
                        LegacyLogEntry(2, s2, PlainUrl, 5, "203.0.113.9")}
    /\ nextLogId = 3
    /\ inputs = DashListInputs

NextDashList ==
    \E p \in Procs :
        \/ dash_list_links_count_documents(p)
        \/ dash_list_links_aggregate(p)

SpecDashList == InitDashList /\ [][NextDashList]_vars

InitRange ==
    /\ InitStore
    /\ links = {} /\ files = {} /\ nextLinkId = 1
    /\ inputs = RangeInputs

NextRange == \E p \in Procs : resolve_range_call(p)

SpecRange == InitRange /\ [][NextRange]_vars

\* Analytics reads of the Access Log Store.
NextDash ==
    \E p \in Procs :
        \/ overview(p)
        \/ overview_links_total(p)
        \/ overview_links_active(p)
        \/ overview_series(p)
        \/ overview_top(p)
        \/ get_link_access_logs(p)

SpecDash == InitDash /\ [][NextDash]_vars

----------------------------------------------------------------------------
(* Properties *)

Keys(pairs) == {pairs[i][1] : i \in 1..Len(pairs)}

\* The value a query string gives a key: that of the key's last occurrence.
Value(pairs, k) ==
    pairs[CHOOSE i \in 1..Len(pairs) :
            /\ pairs[i][1] = k
            /\ \A j \in 1..Len(pairs) : pairs[j][1] = k => j <= i][2]

\* Worker p's request completes in this step.
Completes(p, label) == pc[p] = label /\ pc'[p] = "idle" /\ last'.req.op = req[p].op

\* A request is answered at its first step, without suspending.
AnsweredAtOnce(op) == pc' = pc /\ last' # last /\ last'.req.op = op

Redirected == last.req.op = "redirect" /\ last.resp.status = 307

\* C1: of two overlapping shorten_link requests for one requested slug, the
\* one whose insert_one comes second (the slug is by then held by the
\* other's link) observes 409 Conflict and inserts nothing, so exactly one
\* of them inserts.
C1_ConcurrentShortenOneConflict ==
    [][\A p \in Procs :
         ( /\ Completes(p, "shorten_insert") /\ req[p].custom # <<>>
           /\ \E l \in links : l.slug = req[p].slug )
         => (last'.resp.status = 409 /\ links' = links)]_vars

\* C2: in every reachable state of the Link Store no two link records have
\* the same slug.
C2_SlugUnique ==
    \A l1, l2 \in links : l1.slug = l2.slug => l1 = l2

\* C3: a shorten_link request whose slug is held by a stored link is
\* answered 409 Conflict at once (it never goes on to insert), and the Link
\* Store, the access logs and the QR files are left unchanged.
C3_TakenSlugConflict ==
    [][/\ \A p \in Procs :
            (pc[p] = "idle" /\ pc'[p] = "shorten_insert")
            => ~ \E l \in links : l.slug = req'[p].slug
       /\ AnsweredAtOnce("shorten")
            => ( /\ \E l \in links : l.slug = last'.req.slug
                 /\ last'.resp.status = 409
                 /\ links' = links
                 /\ access_logs' = access_logs
                 /\ files' = files )]_vars

C3_Witness ==
    /\ last.req.op = "shorten" /\ last.resp.status = 409
    /\ \E l \in links : l.slug = last.req.slug

\* C4: a shorten request with a custom slug that no link holds succeeds
\* with 200, returns exactly the requested slug and leaves one link with
\* that slug and the given destination URL in the store.
C4_CustomSlugCreated ==
    [][\A p \in Procs :
         (Completes(p, "shorten_insert") /\ req[p].custom # <<>>)
         => ( /\ last'.resp.status = 200
              /\ last'.resp.slug = req[p].custom
              /\ Cardinality({l \in links' : l.slug = req[p].custom}) = 1
              /\ \A l \in links' : l.slug = req[p].custom => l.original_url = req[p].url )]_vars

\* C5: redirecting a slug that no link holds yields 404 NotFound at once
\* (the request never goes on to the log or callback steps), appends no
\* access-log entry and dispatches no callback.
C5_UnknownSlugNotFound ==
    [][/\ \A p \in Procs :
            (pc[p] = "idle" /\ pc'[p] = "redirect_log")
            => \E l \in links : l.slug = req'[p].slug
       /\ AnsweredAtOnce("redirect")
            => ( /\ ~ \E l \in links : l.slug = last'.req.slug
                 /\ last'.resp.status = 404
                 /\ last'.resp.dest = NoUrl
                 /\ access_logs' = access_logs
                 /\ callbacks' = callbacks
                 /\ callback_log' = callback_log )]_vars

C5_Witness ==
    /\ last.req.op = "redirect" /\ last.resp.status = 404
    /\ links # {}
    /\ ~ \E l \in links : l.slug = last.req.slug

\* C6: a redirect that carries no incoming query string returns the link's
\* stored original URL exactly.
C6_NoQueryVerbatim ==
    (Redirected /\ last.req.query = <<>>) => last.resp.dest = last.req.link.original_url

C6_Witness ==
    /\ Redirected /\ last.req.query = <<>>
    /\ last.req.link.original_url.query # <<>>

\* C7: the final destination's parameters are the destination's own
\* parameters overlaid by the incoming ones: a key on both sides takes the
\* incoming value, a key on one side keeps its value, and no other key
\* appears; the part before the query string is the destination's.
C7_IncomingOverlay ==
    Redirected =>
        LET own == last.req.link.original_url.query
            incoming == last.req.query
            final == last.resp.dest.query
        IN  /\ last.resp.dest.base = last.req.link.original_url.base
            /\ Keys(final) = Keys(own) \cup Keys(incoming)
            /\ \A k \in Keys(incoming) : Value(final, k) = Value(incoming, k)
            /\ \A k \in Keys(own) \ Keys(incoming) : Value(final, k) = Value(own, k)

C7_Witness ==
    /\ Redirected
    /\ Keys(last.req.link.original_url.query) \cap Keys(last.req.query) # {}
    /\ Keys(last.req.link.original_url.query) \ Keys(last.req.query) # {}
    /\ Keys(last.req.query) \ Keys(last.req.link.original_url.query) # {}

\* A redirect's append step adds exactly one entry, under a fresh id that
\* the redirect captures; no other step adds or removes an entry.
OneEntryPerRedirect ==
    /\ \A p \in Procs :
         (pc[p] = "redirect_log" /\ pc'[p] # "redirect_log")
         => ( /\ Cardinality(access_logs') = Cardinality(access_logs) + 1
              /\ \E e \in access_logs' :
                   /\ e.id = req'[p].log_id
                   /\ ~ \E old \in access_logs : old.id = e.id )
    /\ (\A p \in Procs : ~ (pc[p] = "redirect_log" /\ pc'[p] # "redirect_log"))
         => Cardinality(access_logs') = Cardinality(access_logs)

C10_CallbackOutcomeIgnored ==
    [][/\ (\E c \in callbacks : c \notin callbacks')
            => (last' = last /\ pc' = pc /\ req' = req)
       /\ \A p \in Procs :
            Completes(p, "redirect_dispatch")
            => (last'.resp.status = 307 /\ last'.resp.dest = req[p].dest)]_vars

C10_Witness ==
    /\ Redirected
    /\ callback_log.body_id = last.req.log_id
    /\ callback_log.outcome = "timeout"
    /\ last.resp.dest = Destination(last.req.link.original_url, last.req.query)

C12_ReturnsWithoutWaiting ==
    \A p \in Procs : (pc[p] = "redirect_dispatch") ~> (pc[p] = "idle")

C12_Witness ==
    /\ Redirected
    /\ \E c \in callbacks : c.body_id = last.req.log_id
    /\ callback_log = NoCallback

\* C13: a redirect whose lookup found a link is never ended by its
\* access-log append, failed or not, and ends at its dispatch step, failed
\* or not, with 307 to its computed destination; the only other answer a
\* redirect gets is 404, at once, when no link holds the slug.
C13_RedirectDespiteFailures ==
    [][/\ \A p \in Procs :
            /\ pc[p] = "redirect_log" => pc'[p] \in {"redirect_log", "redirect_dispatch"}
            /\ (pc[p] = "redirect_dispatch" /\ pc'[p] # "redirect_dispatch")
                 => ( /\ pc'[p] = "idle"
                      /\ last'.req = req[p]
                      /\ last'.resp.status = 307
                      /\ last'.resp.dest = req[p].dest )
       /\ AnsweredAtOnce("redirect")
            => ( /\ last'.resp.status = 404
                 /\ ~ \E l \in links : l.slug = last'.req.slug )]_vars

C13_Witness ==
    /\ Redirected
    /\ last.req.log_id = 0 /\ access_logs = {}
    /\ last.req.link.callback_url # "" /\ callbacks = {} /\ callback_log = NoCallback
    /\ last.resp.dest = Destination(last.req.link.original_url, last.req.query)

\* C14: when delete_link of a link with slug s completes, no access-log
\* entry is left under s: every entry recorded for s, before or during the
\* deletion, carries the tombstoned slug.
C14_NoEntryLeftUnderSlug ==
    [][\A p \in Procs :
         Completes(p, "delete_remove")
         => ~ \E e \in access_logs' : e.slug = req[p].slug]_vars

\* The PATCH with parameters u turns link l into n: updated_at is set, each
\* supplied field takes the supplied value, and every other field is kept.
Patched(l, n, u) ==
    /\ n.updated_at = <<u.now>>
    /\ n.title = (IF u.title = <<>> THEN l.title ELSE u.title[1])
    /\ n.original_url = (IF u.original_url = <<>> THEN l.original_url ELSE u.original_url[1])
    /\ n.notes = (IF u.notes = <<>> THEN l.notes ELSE u.notes)
    /\ u.tags = <<>> => n.tags = l.tags
    /\ n.is_active = (IF u.is_active = <<>> THEN l.is_active ELSE u.is_active[1])
    /\ n.callback_url = (IF u.callback_url = <<>> THEN l.callback_url ELSE u.callback_url[1])
    /\ n.id = l.id /\ n.slug = l.slug /\ n.created_at = l.created_at
    /\ n.click_count = l.click_count /\ n.status = l.status
    /\ n.qr_png = l.qr_png /\ n.qr_svg = l.qr_svg

\* C15: no step of update_link, regenerate_qr_codes, qr_cleanup or
\* qr_fix_missing removes a link or changes its slug, created_at or
\* click_count; the update_one of update_link changes, of the link with the
\* given id, only the supplied fields and updated_at, and no other link; an
\* update_link for an id that no link has is answered 404 at once and
\* changes nothing.
C15_SlugImmutable ==
    [][/\ \A l \in links :
            \E n \in links' :
                /\ n.id = l.id /\ n.slug = l.slug
                /\ n.created_at = l.created_at /\ n.click_count = l.click_count
       /\ \A p \in Procs :
            (pc[p] = "idle" /\ pc'[p] = "update_read")
            => ( /\ \E l \in links : l.id = req'[p].id
                 /\ Cardinality(links') = Cardinality(links)
                 /\ \A l \in links :
                      IF l.id = req'[p].id
                        THEN \E n \in links' : Patched(l, n, req'[p].update)
                        ELSE l \in links' )
       /\ AnsweredAtOnce("update")
            => ( /\ last'.resp.status = 404
                 /\ ~ \E l \in links : l.id = last'.req.id
                 /\ links' = links /\ access_logs' = access_logs /\ files' = files )]_vars

C15_Witness ==
    /\ last.req.op = "update" /\ last.resp.status = 200
    /\ last.req.update.tags = <<>>
    /\ last.resp.doc.slug = Abc /\ last.resp.doc.created_at = <<1>>
    /\ last.resp.doc.tags = << <<"a">>, <<"b">> >>
    /\ last.resp.doc.qr_png = "" /\ last.resp.doc.is_active = FALSE
    /\ last.resp.doc.updated_at = <<3>>

\* Addresses whose lookup the claims speak of.
PrivateIps == { <<10, 0, 0, 1>>, <<127, 0, 0, 1>>, <<172, 16, 0, 1>>, <<192, 168, 1, 1>>,
                <<169, 254, 1, 1>>, <<240, 0, 0, 1>> }

PublicIps == { <<8, 8, 8, 8>>, <<11, 0, 0, 1>>, <<172, 32, 0, 1>> }

IpOnly(ip) == [NoGeo EXCEPT !.ip = <<ip>>]

GeoReturned == last.req.op = "get_geo_from_ip"

\* C16: get_geo_from_ip never raises, and for a public IP whose lookup did
\* not deliver the provider's JSON object (timeout, error status, body that
\* is not JSON, JSON that is not an object) it returns the IP alone.
C16_GeoNeverRaises ==
    GeoReturned =>
        /\ ~ last.resp.raised
        /\ ( /\ last.req.ip \in PublicIps
             /\ ~ (last.req.outcome.kind = "json" /\ last.req.outcome.data.object) )
           => last.resp.geo = IpOnly(last.req.ip)

\* C17: a call for a private, loopback or reserved IP issues no lookup and
\* returns the IP alone; a call for a public IP issues exactly one lookup,
\* be it in flight or ended.
C17_LookupOnlyForPublicIp ==
    /\ GeoReturned =>
          /\ last.req.ip \in PrivateIps
                => (last.req.lookups = 0 /\ last.resp.geo = IpOnly(last.req.ip))
          /\ last.req.ip \in PublicIps => last.req.lookups = 1
    /\ \A p \in Procs :
          pc[p] = "geo_get" => (req[p].ip \in PublicIps /\ req[p].lookups = 1)

C17_Witness ==
    /\ GeoReturned /\ last.req.ip = <<127, 0, 0, 1>>
    /\ \E p \in Procs : pc[p] = "geo_get" /\ req[p].ip = <<172, 32, 0, 1>>

\* Device facts with every flag false and every family and version null.
NullDeviceFacts ==
    [is_mobile |-> FALSE, is_tablet |-> FALSE, is_pc |-> FALSE,
     browser |-> <<>>, browser_version |-> <<>>,
     os |-> <<>>, os_version |-> <<>>, device |-> <<>>]

\* C18: parse_user_agent never raises, and for an absent, empty or
\* malformed user-agent string it returns the device facts with all flags
\* false and all family and version fields null.
C18_UnparseableUserAgentNull ==
    last.req.op = "parse_user_agent" =>
        /\ ~ last.resp.raised
        /\ last.req.ua \in {<<>>, <<"">>, <<"@@@">>} => last.resp.device = <<NullDeviceFacts>>

\* The current record shape of a stored document: is_active as stored, or
\* else derived from status (true when status is valid or absent);
\* created_at as stored, or else taken from createdAt.
NormalIsActive(doc) ==
    IF doc.is_active # <<>> THEN doc.is_active[1]
    ELSE doc.status = <<>> \/ doc.status = <<"valid">>

NormalCreatedAt(doc) ==
    IF doc.created_at # <<>> THEN doc.created_at
    ELSE IF doc.createdAt # <<>> THEN ParseDate(doc.createdAt[1])
    ELSE <<>>

Normalised(doc, out) ==
    /\ out.id = doc.id /\ out.slug = doc.slug
    /\ out.is_active = NormalIsActive(doc)
    /\ out.created_at = NormalCreatedAt(doc)

\* C19: what get_link returns for a document, and every item list_links
\* returns, is the document in the current record shape, a legacy document
\* reported like the current-schema document equivalent to it.
C19_ReadsNormalised ==
    /\ (last.req.op = "get_link" /\ last.resp.status = 200)
          => Normalised(last.req.link, last.resp.doc)
    /\ last.req.op = "list_links"
          => \A i \in 1..Len(last.resp.results) :
               \E doc \in links : Normalised(doc, last.resp.results[i])

\* The instant of a click, whichever field its entry stores it in.
TimeOf(e) == IF e.ts # <<>> THEN e.ts[1] ELSE ParseDate(e.timestamp[1])[1]

\* C20: analytics count and order access-log entries by their time whether
\* it is stored as the legacy string `timestamp` or as the native `ts`: the
\* overview's clicks_total is the number of clicks whose time lies in the
\* range, and a slug's log listing is in descending order of time.
C20_BothTimestampGenerationsCounted ==
    /\ (last.req.op = "overview" /\ last.resp.status = 200)
         => last.resp.dash.clicks_total =
              Cardinality({e \in access_logs :
                             /\ Instant(last.req.range.from_utc) <= 24 * TimeOf(e)
                             /\ 24 * TimeOf(e) <= Instant(last.req.range.to_utc)})
    /\ (last.req.op = "get_link_access_logs" /\ last.resp.status = 200)
         => \A i, j \in 1..Len(last.resp.results) :
               i < j => TimeOf(last.resp.results[i]) >= TimeOf(last.resp.results[j])

\* C21: every link record in the Link Store has a slug of 3 to 64
\* characters drawn from [a-zA-Z0-9_-], whatever custom slugs the
\* shorten_link requests carried.
C21_StoredSlugsWellFormed ==
    \A l \in links : SlugPattern(l.slug)

\* A link that may be served at instant now: active, not yet expired and
\* under its click limit.
Servable(l, now) ==
    /\ l.is_active
    /\ l.expires_at = <<>> \/ now < l.expires_at[1]
    /\ l.max_clicks = <<>> \/ l.click_count < l.max_clicks[1]

ResultsAfter(p) == IF pc'[p] = "idle" THEN last'.resp.results ELSE req'[p].results

ResultSlugs(results) == {results[i].slug : i \in 1..Len(results)}

NoRepeat(seq) == \A i, j \in 1..Len(seq) : seq[i] = seq[j] => i = j

C24_ErrorAddsNoLink ==
    [][/\ \A p \in Procs :
            (Completes(p, "shorten_insert") /\ last'.resp.status # 200) => links' = links
       /\ AnsweredAtOnce("shorten") => links' = links]_vars

\* A slug of the shape {slug}_deleted_{date}.
IsTombstone(s) == Len(s) > 19 /\ SubSeq(s, Len(s) - 18, Len(s) - 10) = Deleted

\* The access logs of the incarnation of abc that was deleted before the
\* store's initial state.
EarlierIncarnationLogs == {1}

\* C25: tombstoned access logs are never attributed to a live link (no
\* stored link has the slug that a tombstoned entry carries), and are never
\* mixed between incarnations: the tombstoned slug that delete_link writes
\* for a link is carried by no entry of an earlier deleted link, also when
\* the slug was deleted, reissued and deleted again on one day.
C25_TombstonesKeptApart ==
    [][/\ \A l \in links', e \in access_logs' : IsTombstone(e.slug) => l.slug # e.slug
       /\ \A p \in Procs :
            (pc[p] = "delete_rename" /\ pc'[p] = "delete_remove")
            => \A e \in access_logs' :
                  e.slug = req'[p].new_slug => e.id \notin EarlierIncarnationLogs]_vars

RECURSIVE SumClicks(_)
SumClicks(rows) == IF rows = <<>> THEN 0 ELSE Head(rows).clicks + SumClicks(Tail(rows))

\* C26: every overview response is internally consistent, also when the
\* stores are written while the request is in progress: the clicks of its
\* daily series sum to clicks_total, no top_links entry has more clicks
\* than clicks_total, and links_active is at most links_total.
C26_OverviewConsistent ==
    (last.req.op = "overview" /\ last.resp.status = 200)
    => LET d == last.resp.dash
       IN  /\ SumClicks(d.series) = d.clicks_total
           /\ \A i \in 1..Len(d.top_links) : d.top_links[i].clicks <= d.clicks_total
           /\ d.links_active <= d.links_total

RECURSIVE SumCounts(_)
SumCounts(rows) == IF rows = <<>> THEN 0 ELSE Head(rows).count + SumCounts(Tail(rows))

\* The bucket the precedence mobile, tablet, pc, other gives an entry.
Bucket(e) ==
    CASE e.is_mobile = <<TRUE>> -> "mobile"
      [] e.is_mobile # <<TRUE>> /\ e.is_tablet = <<TRUE>> -> "tablet"
      [] e.is_mobile # <<TRUE>> /\ e.is_tablet # <<TRUE>> /\ e.is_pc = <<TRUE>> -> "pc"
      [] OTHER -> "other"

\* The entries of the request's slug that its range matched.
StatsEntries ==
    {e \in Matched(last.req.range) : e.slug = last.req.slug}

\* C27: in a link_stats response every entry of the range is counted in
\* exactly one device_type bucket, the one of mobile, tablet, pc, other
\* that the precedence gives it, so the device_type counts sum to
\* clicks_total whatever flags the entries carry.
C27_DeviceTypesPartitionClicks ==
    (last.req.op = "link_stats" /\ last.resp.status = 200)
    => LET d == last.resp.stats.device_type
       IN  /\ SumCounts(d) = last.resp.stats.clicks_total
           /\ last.resp.stats.clicks_total = Cardinality(StatsEntries)
           /\ \A i, j \in 1..Len(d) : d[i].key = d[j].key => i = j
           /\ \A i \in 1..Len(d) :
                 d[i].count = Cardinality({e \in StatsEntries : Bucket(e) = d[i].key})
           /\ \A e \in StatsEntries : \E i \in 1..Len(d) : d[i].key = Bucket(e)

\* A response over three entries of which one has all three flags set and
\* one has none.
C27_Witness ==
    /\ last.req.op = "link_stats" /\ last.resp.status = 200
    /\ last.resp.stats.clicks_total = 3
    /\ \E e \in StatsEntries :
          e.is_mobile = <<TRUE>> /\ e.is_tablet = <<TRUE>> /\ e.is_pc = <<TRUE>>
    /\ \E e \in StatsEntries : Bucket(e) = "other"

\* The clicks of a stored link that the range of the last request matched,
\* and the latest of them (0 when there is none).
ClicksOf(l) == Cardinality({e \in Matched(last.req.range) : e.slug = l.slug})

LastClickOf(l) ==
    LET M == {e \in Matched(last.req.range) : e.slug = l.slug}
    IN  IF M = {} THEN 0 ELSE MaxTs(M)

\* C28: the dashboard's list_links returns links in globally descending
\* order of the requested key across pages: a link on page p is preceded
\* in that order by fewer than p * page_size matching links, so that no
\* link of a later page has more clicks (or, for last_click_desc, a later
\* last click) than a link of an earlier page.
C28_SortedAcrossPages ==
    (last.req.op = "dash_list_links" /\ last.resp.status = 200)
    => LET matching == {l \in links : last.req.filter = <<>>
                                       \/ l.is_active = last.req.filter[1]}
           bound == last.req.page * last.req.page_size
           data == last.resp.results
       IN  /\ last.req.sort = "clicks_desc"
                => \A i \in 1..Len(data) :
                      Cardinality({l \in matching : ClicksOf(l) > data[i].clicks}) < bound
           /\ last.req.sort = "last_click_desc"
                => \A i \in 1..Len(data) :
                      Cardinality({l \in matching :
                                     LastClickOf(l) > (IF data[i].last_click = <<>> THEN 0
                                                       ELSE data[i].last_click[1])}) < bound

\* The last completed call of resolve_range, its parsed bounds and its
\* instant now, in hours.
RangeCalled == last.req.op = "resolve_range"

RangeReturned == RangeCalled /\ last.resp.status = 200

GivenFrom == _parse_dt(last.req.from_param, last.req.tz)

GivenTo == _parse_dt(last.req.to_param, last.req.tz)

NowInstant == 24 * last.req.opts.now

Week == 24 * default_days

\* from <= to, and the UTC bounds are the local bounds' instants.
RangeWellFormed ==
    LET rr == last.resp.range
    IN  /\ Instant(rr.from_utc) <= Instant(rr.to_utc)
        /\ rr.from_utc.off = 0 /\ rr.to_utc.off = 0
        /\ rr.from_local.off = last.req.tz /\ rr.to_local.off = last.req.tz
        /\ Instant(rr.from_utc) = Instant(rr.from_local)
        /\ Instant(rr.to_utc) = Instant(rr.to_local)

\* The cases in which at most the upper bound is given, and the case of
\* both, which are put in order.
RangeDefaults ==
    LET rr == last.resp.range
    IN  /\ (GivenFrom = <<>> /\ GivenTo = <<>>)
             => /\ Instant(rr.to_local) = NowInstant
                /\ Instant(rr.from_local) = NowInstant - Week
        /\ (GivenFrom = <<>> /\ GivenTo # <<>>)
             => /\ rr.to_local = GivenTo[1]
                /\ Instant(rr.from_local) = Instant(GivenTo[1]) - Week
        /\ (GivenFrom # <<>> /\ GivenTo # <<>>)
             => \/ /\ Instant(GivenFrom[1]) <= Instant(GivenTo[1])
                   /\ rr.from_local = GivenFrom[1] /\ rr.to_local = GivenTo[1]
                \/ /\ Instant(GivenFrom[1]) > Instant(GivenTo[1])
                   /\ rr.from_local = GivenTo[1] /\ rr.to_local = GivenFrom[1]

\* C29: resolve_range always returns from <= to with the UTC bounds at the
\* instants of the local ones: [now - default_days, now] with no bound
\* given, from = to - default_days with only `to`, to = now with only
\* `from`, and bounds given in reverse order swapped.
C29_RangeResolved ==
    RangeCalled
    => /\ last.resp.status = 200
       /\ RangeWellFormed
       /\ RangeDefaults
       /\ (GivenFrom # <<>> /\ GivenTo = <<>>)
            => /\ last.resp.range.from_local = GivenFrom[1]
               /\ Instant(last.resp.range.to_local) = NowInstant

\* C29, amended: a call whose bounds are absent, empty or ISO dates or
\* datetimes returns (any other value raises); the range returned has
\* from <= to with the UTC bounds at the instants of the local ones; the
\* defaults are as stated, except that with only `from` given and later
\* than now the two are swapped: from = now and to = the given bound.
C29_RangeResolvedWhenParseable ==
    /\ RangeCalled
         => (last.resp.status = 200
               <=> ~ RangeRaises(last.req.from_param, last.req.to_param))
    /\ RangeReturned
         => /\ RangeWellFormed
            /\ RangeDefaults
            /\ (GivenFrom # <<>> /\ GivenTo = <<>>)
                 => IF Instant(GivenFrom[1]) <= NowInstant
                      THEN /\ last.resp.range.from_local = GivenFrom[1]
                           /\ Instant(last.resp.range.to_local) = NowInstant
                      ELSE /\ Instant(last.resp.range.from_local) = NowInstant
                           /\ last.resp.range.to_local = GivenFrom[1]

\* Only `from` was given, a day after now, in America/Sao_Paulo.
C29_Witness ==
    /\ RangeReturned
    /\ GivenFrom # <<>> /\ GivenTo = <<>>
    /\ Instant(GivenFrom[1]) > NowInstant
    /\ last.req.tz = America_Sao_Paulo
    /\ Instant(last.resp.range.to_utc) = Instant(GivenFrom[1])

\* The time of the latest click on a link's slug, whichever generation
\* stored it, or the link's creation time when it was never followed.
ReferenceTime(l) ==
    LET clicks == {e \in access_logs : e.slug = l.slug}
    IN  IF clicks = {} THEN l.created_at[1]
        ELSE CHOOSE t \in {TimeOf(e) : e \in clicks} : \A e \in clicks : TimeOf(e) <= t

\* The link's record is modified or one of its QR files is deleted.
Touched(l) ==
    \/ l \notin links'
    \/ \E f \in files \ files' : f[2] = l.slug

\* A dry run of either script deletes no file and modifies no record.
DryRunChangesNothing ==
    (pc[Script] # "idle" /\ req[Script].opts.dry_run)
    => links' = links /\ files' = files

\* qr_fix_missing modifies only links that miss a QR file on disk.
FixTouchesOnlyMissing ==
    req[Script].op = "qr_fix_missing"
    => /\ files' = files
       /\ \A l \in links : Touched(l) => ~ FilesExist("src/static", l.slug)

\* qr_cleanup touches only links last followed, or created when never
\* followed, before the cutoff.
CleanupTouchesOnlyStale ==
    req[Script].op = "qr_cleanup"
    => \A l \in links : Touched(l) => ReferenceTime(l) < req[Script].opts.cutoff

\* C30: run with dry_run the two scripts delete no QR file and modify no
\* link record; without it, qr_cleanup touches only links whose latest
\* access, or creation time when never accessed, is older than the
\* retention cutoff, and qr_fix_missing modifies only links that miss a QR
\* file on disk.
C30_ScriptsTouchOnlyStaleOrMissing ==
    [][DryRunChangesNothing /\ FixTouchesOnlyMissing /\ CleanupTouchesOnlyStale]_vars

C30_DryRunOnly == [][DryRunChangesNothing]_vars

C30_FixOnly == [][FixTouchesOnlyMissing]_vars

C30_CleanupOnly == [][CleanupTouchesOnlyStale]_vars

\* With every click stored under the native `ts`, qr_cleanup touches only
\* links last followed or created before the cutoff.
C30_CleanupOnlyNative ==
    [][(\A e \in access_logs : e.ts # <<>>) => CleanupTouchesOnlyStale]_vars

\* A run of qr_cleanup that is not a dry run has deleted the QR files of abc.
C30_CleanupActed ==
    /\ last.req.op = "qr_cleanup" /\ ~ last.req.opts.dry_run
    /\ <<"src/static", Abc, "svg">> \notin files

\* A run of qr_fix_missing that is not a dry run has disabled abc.
C30_FixActed ==
    /\ last.req.op = "qr_fix_missing" /\ ~ last.req.opts.dry_run
    /\ \E l \in links : l.slug = Abc /\ l.qr_png = "" /\ l.updated_at = <<6>>

====
